---- MODULE Spec2Model ----
(***************************************************************************)
(* Recording session orchestrator of synapse-notes.                        *)
(*                                                                         *)
(* Host side: electron/recording.ts (module state, WebSocket handlers,     *)
(* saveAudioData, startRecordingSession, stopRecordingSession,             *)
(* stopRecordingServer) and the tRPC control surface recordingRouter in    *)
(* electron/auth.ts.                                                       *)
(*                                                                         *)
(* One action is one run-to-completion segment of the Node event loop: a   *)
(* handler from its entry (or from the await it resumes after) up to its   *)
(* next await on real I/O.  Promise continuations that are only microtasks *)
(* (the tRPC handler resuming after the session promise settles, or after  *)
(* stopRecordingServer resolves) run inside the action that settles them.  *)
(***************************************************************************)
EXTENDS Integers, Sequences, FiniteSets, TLC

\* ------------------------------------------------------------------ bounds
MaxCalls == 2
MaxServers == 2
MaxSockets == 2
MaxSaves == 2
MaxStops == 2
\* the longest byte sequence sent
MaxLen == 3
\* start commands the recorder page acts on
MaxStarts == 2
\* chunks one MediaRecorder emits
MaxChunks == 2
\* commands sent and not yet handled by the page
MaxWire == 2
\* startSession and stopSession mutations the RecordingControls component issues
MaxStartMuts == 2
MaxStopMuts == 2
\* getAuthUrl calls that generate a verifier and a state, handleCallback
\* invocations, callback servers created
MaxAuthUrls == 2
MaxCallbacks == 2
MaxCbServers == 2

\* --------------------------------------------------------------- constants
\* null of the module-level references (recording.ts 23-29)
NULL == 0
\* "checks++ > 20" of the connection wait
PollLimit == 20
\* getPort({ port: [9000, 9100] })
PortA == 9000
PortB == 9100
\* the port get-port falls back to when no preferred port is free
EphemeralPort == 49152

Calls == 1..MaxCalls
Servers == 1..MaxServers
Sockets == 1..MaxSockets
SaveIds == 1..MaxSaves
\* direct invocations of stopRecordingServer (the exit hook, an explicit
\* cleanup), numbered after the startSession requests
Stops == (MaxCalls + 1)..(MaxCalls + MaxStops)
\* everything that can await stopRecordingServer
Callers == Calls \cup Stops
\* a path is recording-<Date.now()>.wav in the recordings directory: the
\* timestamp identifies it
Paths == 1..MaxSaves
\* startRecording calls that pass the guard of 93-96; the streams, the audio
\* context and the MediaRecorder a call creates carry its number
Starts == 1..MaxStarts

\* payload.data arrays a client may send (JSON numbers)
Payloads == { <<7>>, <<255, 0>> }
\* text frames that are not JSON: the one character "{"
MalformedTexts == { <<123>> }
\* Buffer.from(array): every element is truncated to a byte
BufferFrom(arr) == [i \in DOMAIN arr |-> arr[i] % 256]

\* ----------------------------------------------------------------- reasons
\* A rejection reason is an Error object (it has .message) or a bare string.
ErrorObj(t) == [isError |-> TRUE, text |-> t]
StringReason(t) == [isError |-> FALSE, text |-> t]
NoReason == [isError |-> FALSE, text |-> ""]
\* null or undefined given as the reason: no string and no object (the text
\* only names it)
NullReason == [isError |-> FALSE, text |-> "<null>"]
TimeoutText == "Timeout waiting for recorder WebSocket connection"
InvalidAudioText == "Invalid audio data format received"
InvalidMessageText == "Invalid message format received"
NoConnectionText == "No active connection to stop."
PortUnknownText == "Server running but port unknown"
SocketErrorText == "socket error"
WriteErrorText == "EACCES"
ClientErrors == { "denied" }
GenericStartError == "Failed to start recording session"

VARIABLES
  \* module state of recording.ts
  server, wss, recordingSocket, currentPort, audioFilePath,
  resolveAudioPromise, rejectAudioPromise,
  \* http.Server / WebSocketServer objects created so far
  srvState, srvPort, wssState, srvWaiters, wssCb,
  \* client connections
  sockState, sockSrv,
  \* saveAudioData runs, the file system and Date.now()
  saves, files, clock,
  \* one startSession request each: the outcome of its startRecordingSession
  \* call ("pending" while the promise of 227-231 is unsettled), the position
  \* of the handler and the poll counter
  promise, pc, checks,
  \* what the last step put out: the command it sent to the registered client
  \* and the value the stopSession procedure returned ("none" when it did not)
  sentCmd, stopReturned,
  \* an exception left a WebSocket handler
  escaped

VARIABLES
  \* the ports other processes hold
  occupied,
  \* one recording on its way from the engine to the host: the bytes of the
  \* blob, the text of the JSON array sent for them, the Buffer the host makes
  bytesIn, wireText, bytesOut

VARIABLES
  \* state of recorder.js (6-14)
  ws, mediaRecorder, audioChunks, micStream, screenStream, audioContext,
  mixedStreamDestination, micSource, screenSource,
  \* each startRecording call's position
  startPc,
  \* the MediaRecorder objects: .state, the event each has pending, the chunks
  \* each has emitted, the blob its onstop built, the audioBlob messages sent
  recState, recEvent, produced, blob, blobsSent,
  \* the browser's media objects: streams with live tracks, streams that have
  \* an audio track, audio contexts not closed
  liveMic, liveScreen, audioMic, audioScreen, openCtx,
  \* what the last handler run did, in order: the messages it sent, "cleanup"
  \* for a run of cleanupStreams, "throw" for an exception that left it
  did

VARIABLES
  \* the WebSocket between the recorder page and the host: the commands and
  \* the messages sent and not yet handled, oldest first
  toEngine, toHost

VARIABLES
  \* state of the RecordingControls component (part_000 419-421); its
  \* audioFilePath is savedPath here
  recordingState, errorMsg, savedPath,
  \* the startSession and stopSession mutations issued so far, and the
  \* 3-second timer of the effect
  startMutation, stopMutation, timer

VARIABLES
  \* module state of auth.ts (50-57)
  tempVerifier, tempAuthState, resolveAuthPromise, rejectAuthPromise,
  callbackServer, storedRefreshToken,
  \* the number of verifier / state pairs generated so far (each pair is
  \* fresh random data: the n-th pair is the value n)
  authSeq,
  \* one handleCallback invocation each: its position, the verifier it
  \* captured, the promise listenForAuthCode returned and what it returned
  hpc, hVerifier, authPromise, hResult,
  \* the callback servers: state, close() called with the callback of 116-122,
  \* the 3-minute timer, a connection with a request on its way
  cbState, cbCb, cbTimer, inflight

wireVars == << toEngine, toHost >>

authVars == << tempVerifier, tempAuthState, resolveAuthPromise, rejectAuthPromise,
               callbackServer, storedRefreshToken, authSeq,
               hpc, hVerifier, authPromise, hResult,
               cbState, cbCb, cbTimer, inflight >>

uiVars == << recordingState, errorMsg, savedPath, startMutation, stopMutation, timer >>

\* the renderer process
sideVars == << uiVars, authVars >>

\* the state of recording.ts and of its callers
hostVars == << server, wss, recordingSocket, currentPort, audioFilePath,
               resolveAudioPromise, rejectAudioPromise,
               srvState, srvPort, wssState, srvWaiters, wssCb,
               sockState, sockSrv, saves, files, clock,
               promise, pc, checks, sentCmd, stopReturned, escaped >>

codecVars == << bytesIn, wireText, bytesOut >>

\* the state of recorder.js and of the page it runs in
engineVars == << ws, mediaRecorder, audioChunks, micStream, screenStream,
                 audioContext, mixedStreamDestination, micSource, screenSource,
                 startPc, recState, recEvent, produced, blob, blobsSent,
                 liveMic, liveScreen, audioMic, audioScreen, openCtx, did >>

\* everything else
otherVars == << occupied, codecVars, engineVars, sideVars >>

vars == << hostVars, otherVars, wireVars >>

moduleVars == << server, wss, recordingSocket, currentPort, audioFilePath,
                 resolveAudioPromise, rejectAudioPromise >>
serverVars == << srvState, srvPort, wssState, srvWaiters, wssCb >>
socketVars == << sockState, sockSrv >>
saveVars == << saves, files, clock >>
callVars == << promise, pc, checks >>

NoPromise == [st |-> "none", path |-> NULL, reason |-> NoReason]
NoSave == [pc |-> "none", data |-> <<>>, path |-> NULL]
NoFile == [st |-> "absent", bytes |-> <<>>]

InitHost ==
  /\ server = NULL /\ wss = NULL /\ recordingSocket = NULL
  /\ currentPort = NULL /\ audioFilePath = NULL
  /\ resolveAudioPromise = NULL /\ rejectAudioPromise = NULL
  /\ srvState = [s \in Servers |-> "none"]
  /\ srvPort = [s \in Servers |-> NULL]
  /\ wssState = [s \in Servers |-> "none"]
  /\ srvWaiters = [s \in Servers |-> {}]
  /\ wssCb = {}
  /\ sockState = [k \in Sockets |-> "none"]
  /\ sockSrv = [k \in Sockets |-> NULL]
  /\ saves = [t \in SaveIds |-> NoSave]
  /\ files = [p \in Paths |-> NoFile]
  /\ clock = 0
  /\ promise = [c \in Calls |-> NoPromise]
  /\ pc = [c \in Callers |-> "idle"]
  /\ checks = [c \in Calls |-> 0]
  /\ sentCmd = "none"
  /\ stopReturned = "none"
  /\ escaped = FALSE

\* no byte sequence, no text
Nothing == << 256 >>

InitCodecIdle == bytesIn = Nothing /\ wireText = Nothing /\ bytesOut = Nothing

\* recorder.js loaded: connectWebSocket() has been called (300)
InitEngine ==
  /\ ws = "connecting"
  /\ mediaRecorder = NULL /\ audioChunks = << >>
  /\ micStream = NULL /\ screenStream = NULL
  /\ audioContext = NULL /\ mixedStreamDestination = NULL
  /\ micSource = NULL /\ screenSource = NULL
  /\ startPc = [c \in Starts |-> "none"]
  /\ recState = [r \in Starts |-> "none"]
  /\ recEvent = [r \in Starts |-> "none"]
  /\ produced = [r \in Starts |-> 0]
  /\ blob = [r \in Starts |-> << >>]
  /\ blobsSent = [r \in Starts |-> 0]
  /\ liveMic = {} /\ liveScreen = {} /\ audioMic = {} /\ audioScreen = {}
  /\ openCtx = {}
  /\ did = << >>

InitWire == toEngine = << >> /\ toHost = << >>

StartMuts == 1..MaxStartMuts
StopMuts == 1..MaxStopMuts
\* errorMsg is null
NoMsg == "<null>"

\* RecordingControls mounted (419-421), no mutation issued
InitUI ==
  /\ recordingState = "idle" /\ errorMsg = NoMsg /\ savedPath = NULL
  /\ startMutation = [m \in StartMuts |-> "none"]
  /\ stopMutation = [n \in StopMuts |-> "none"]
  /\ timer = "none"

HCalls == 1..MaxCallbacks
CbServers == 1..MaxCbServers
NoAuthPromise == [st |-> "none", code |-> NULL, reason |-> ""]

\* auth.ts loaded (50-57)
InitAuth ==
  /\ tempVerifier = NULL /\ tempAuthState = NULL
  /\ resolveAuthPromise = NULL /\ rejectAuthPromise = NULL
  /\ callbackServer = NULL /\ storedRefreshToken = NULL
  /\ authSeq = 0
  /\ hpc = [h \in HCalls |-> "idle"]
  /\ hVerifier = [h \in HCalls |-> NULL]
  /\ authPromise = [h \in HCalls |-> NoAuthPromise]
  /\ hResult = [h \in HCalls |-> "none"]
  /\ cbState = [s \in CbServers |-> "none"]
  /\ cbCb = {}
  /\ cbTimer = [s \in CbServers |-> "none"]
  /\ inflight = {}

InitSide == InitUI /\ InitAuth

Init ==
  /\ InitHost
  /\ occupied = {}
  /\ InitCodecIdle
  /\ InitEngine
  /\ InitWire
  /\ InitSide

\* ------------------------------------------------------------- helpers
\* the connections of server s that are not destroyed yet: they keep the
\* HTTP server from emitting 'close'
LiveSockets(s) ==
  { k \in Sockets : sockSrv[k] = s /\ sockState[k] \in {"open", "closing", "errored"} }

\* the clients of the WebSocketServer of s: a WebSocket leaves the set when
\* its 'close' event is emitted, after its connection was destroyed ("gone")
WssClients(s) ==
  { k \in Sockets : sockSrv[k] = s /\ sockState[k] \in {"open", "closing", "errored", "gone"} }

\* the first unused identifier of a family (objects are created in order)
FirstFree(S, used) == CHOOSE x \in S \ used : \A y \in S \ used : x <= y

UsedServers == { s \in Servers : srvState[s] # "none" }
UsedSockets == { k \in Sockets : sockState[k] # "none" }
UsedSaves == { t \in SaveIds : saves[t].pc # "none" }
UsedCalls == { c \in Calls : pc[c] # "idle" }

BoundPorts == { srvPort[s] : s \in { x \in Servers : srvState[x] = "listening" } }

\* getPort({ port: [9000, 9100] }): the preferred ports in order, else any
GetPort(bound) ==
  IF PortA \notin bound THEN PortA
  ELSE IF PortB \notin bound THEN PortB
  ELSE EphemeralPort

\* a step that sends no command and returns nothing from stopSession
Quiet == sentCmd' = "none" /\ stopReturned' = "none"

\* ------------------------------------------- stopRecordingServer (252-274)
\* mutant of StopRecordingServer: the else branch that resolves when no
\* server exists is missing
StopRecordingServerNoElse(c) ==
  /\ wssState' = IF wss # NULL
                   THEN [wssState EXCEPT ![wss] = IF @ = "open" THEN "closing" ELSE @]
                   ELSE wssState
  /\ wssCb' = IF wss # NULL THEN wssCb \cup {wss} ELSE wssCb
  /\ srvState' = IF server # NULL
                   THEN [srvState EXCEPT ![server] = IF @ = "listening" THEN "closing" ELSE @]
                   ELSE srvState
  /\ srvWaiters' = IF server # NULL
                     THEN [srvWaiters EXCEPT ![server] = @ \cup {c}]
                     ELSE srvWaiters
  /\ pc' = [pc EXCEPT ![c] = "teardown"]
  /\ UNCHANGED srvPort

\* The synchronous part, run for caller c: close()
\* is called on the WebSocketServer and the HTTP server the module variables
\* hold; the callbacks (WssClosed, SrvClosed) run later.  With no server the
\* returned promise resolves at once and the handler returns.
StopRecordingServer(c) ==
  /\ wssState' = IF wss # NULL
                   THEN [wssState EXCEPT ![wss] = IF @ = "open" THEN "closing" ELSE @]
                   ELSE wssState
  /\ wssCb' = IF wss # NULL THEN wssCb \cup {wss} ELSE wssCb
  /\ IF server # NULL
       THEN /\ srvState' = [srvState EXCEPT ![server] =
                              IF @ = "listening" THEN "closing" ELSE @]
            /\ srvWaiters' = [srvWaiters EXCEPT ![server] = @ \cup {c}]
            /\ pc' = [pc EXCEPT ![c] = "teardown"]
       ELSE /\ UNCHANGED << srvState, srvWaiters >>
            /\ pc' = [pc EXCEPT ![c] = "done"]
  /\ UNCHANGED srvPort

\* wss.close callback: 'close' of the WebSocketServer, emitted once none of
\* its clients is left
WssClosed(s) ==
  /\ s \in wssCb
  /\ WssClients(s) = {}
  /\ wss' = NULL
  /\ recordingSocket' = NULL
  /\ wssState' = [wssState EXCEPT ![s] = "closed"]
  /\ wssCb' = wssCb \ {s}
  /\ Quiet
  /\ UNCHANGED << server, currentPort, audioFilePath, resolveAudioPromise,
                  rejectAudioPromise, srvState, srvPort, srvWaiters,
                  socketVars, saveVars, callVars, escaped >>
  /\ UNCHANGED otherVars

\* server.close callback: 'close' of the HTTP server, emitted once it has
\* stopped listening and no connection is left; every stopRecordingServer
\* promise waiting on it resolves and its caller goes on.  A WebSocketServer
\* closed with no client left emits its 'close' on the next tick, ahead of
\* the HTTP server; one that still has clients emits it after the 'close' of
\* its last client, which follows the end of that client's connection.
SrvClosed(s) ==
  /\ srvWaiters[s] # {}
  /\ LiveSockets(s) = {}
  /\ s \in wssCb => WssClients(s) # {}
  /\ server' = NULL
  /\ currentPort' = NULL
  /\ srvState' = [srvState EXCEPT ![s] = "closed"]
  /\ srvWaiters' = [srvWaiters EXCEPT ![s] = {}]
  /\ pc' = [c \in Callers |-> IF c \in srvWaiters[s] THEN "done" ELSE pc[c]]
  /\ Quiet
  /\ UNCHANGED << wss, recordingSocket, audioFilePath, resolveAudioPromise,
                  rejectAudioPromise, srvPort, wssState, wssCb,
                  socketVars, saveVars, promise, checks, escaped >>
  /\ UNCHANGED otherVars

\* stopRecordingServer called on its own (process.on("exit"), 276-279, or an
\* explicit cleanup): x is done when the returned promise has resolved
StopServer(x) ==
  /\ pc[x] = "idle"
  /\ \A y \in Stops : y < x => pc[y] # "idle"
  /\ StopRecordingServer(x)
  /\ Quiet
  /\ UNCHANGED << moduleVars, socketVars, saveVars, promise, checks, escaped >>
  /\ UNCHANGED otherVars

\* ------------------------------- recordingRouter.startSession (auth.ts 428-450)
\* error.message || "Failed to start recording session"
ErrorField(reason) == IF reason.isError THEN reason.text ELSE GenericStartError

\* mutant of StartSessionCatch: the failure is returned without stopping
\* the server
StartSessionCatchNoStop(c) ==
  /\ pc' = [pc EXCEPT ![c] = "done"]
  /\ UNCHANGED serverVars

\* catch (error): await stopRecordingServer() before the failure is returned
StartSessionCatch(c) == StopRecordingServer(c)

\* try: the handler returns as soon as startRecordingSession resolves
StartSessionReturn(c) ==
  /\ pc' = [pc EXCEPT ![c] = "done"]
  /\ UNCHANGED serverVars

\* the value the startSession procedure returns once its handler is done
\* (437 and 445-448)
\* (437 and 445-448); reading error.message of null or undefined throws a
\* TypeError out of the catch block, and the procedure fails with it
Result(c) ==
  IF pc[c] # "done" THEN [st |-> "none", filePath |-> NULL, error |-> ""]
  ELSE IF promise[c].st = "resolved"
    THEN [st |-> "ok", filePath |-> promise[c].path, error |-> ""]
  ELSE IF promise[c].reason = NullReason
    THEN [st |-> "threw", filePath |-> NULL, error |-> "TypeError"]
    ELSE [st |-> "fail", filePath |-> NULL, error |-> ErrorField(promise[c].reason)]

\* The resolve / reject functions of the promise startRecordingSession
\* returns (227-231): the first call settles it and resumes the startSession
\* handler awaiting it; a call on a settled promise does nothing.
SettlePromise(p, outcome) ==
  IF promise[p].st = "pending"
    THEN /\ promise' = [promise EXCEPT ![p] = outcome]
         /\ IF outcome.st = "resolved"
              THEN StartSessionReturn(p)
              ELSE StartSessionCatch(p)
    ELSE UNCHANGED << promise, pc, serverVars >>

Rejected(reason) == [st |-> "rejected", path |-> NULL, reason |-> reason]
Resolved(path) == [st |-> "resolved", path |-> path, reason |-> NoReason]

\* startRecordingSession throws before it has created the promise of 227-231
Throw(c, reason) ==
  /\ promise' = [promise EXCEPT ![c] = Rejected(reason)]
  /\ StartSessionCatch(c)

\* if (rejectAudioPromise) rejectAudioPromise(reason)
RejectAudio(reason) ==
  IF rejectAudioPromise # NULL
    THEN SettlePromise(rejectAudioPromise, Rejected(reason))
    ELSE UNCHANGED << promise, pc, serverVars >>

\* if (resolveAudioPromise) resolveAudioPromise(audioFilePath) else warn
ResolveAudio(path) ==
  IF resolveAudioPromise # NULL
    THEN SettlePromise(resolveAudioPromise, Resolved(path))
    ELSE UNCHANGED << promise, pc, serverVars >>

\* mutant of Listening: the check for a running server is lost
ListeningNever == FALSE

\* server?.listening (57)
Listening == server # NULL /\ srvState[server] = "listening"

\* ------------------------------------- startRecordingSession (202-232)
\* The startSession procedure is invoked.  startRecordingServer (53-61)
\* returns at once when the server is listening; otherwise it awaits getPort.
StartSession(c) ==
  /\ pc[c] = "idle"
  /\ \A d \in Calls : d < c => pc[d] # "idle"
  /\ IF Listening
       THEN IF currentPort = NULL
              THEN Throw(c, ErrorObj(PortUnknownText))
              ELSE /\ pc' = [pc EXCEPT ![c] = "open"]
                   /\ UNCHANGED << promise, serverVars >>
       ELSE /\ UsedServers # Servers
            /\ pc' = [pc EXCEPT ![c] = "getPort"]
            /\ UNCHANGED << promise, serverVars >>
  /\ Quiet
  /\ UNCHANGED << moduleVars, socketVars, saveVars, checks, escaped >>
  /\ UNCHANGED otherVars

\* startRecordingServer after getPort (64-68, 153-163): a new HTTP server and
\* a new WebSocketServer replace the module references and listen
ServerCreate(c) ==
  /\ pc[c] = "getPort"
  /\ UsedServers # Servers
  /\ LET s == FirstFree(Servers, UsedServers)
         port == GetPort(BoundPorts \cup occupied)
     IN /\ currentPort' = port
        /\ server' = s
        /\ wss' = s
        /\ srvState' = [srvState EXCEPT ![s] = "listening"]
        /\ srvPort' = [srvPort EXCEPT ![s] = port]
        /\ wssState' = [wssState EXCEPT ![s] = "open"]
  /\ pc' = [pc EXCEPT ![c] = "open"]
  /\ Quiet
  /\ UNCHANGED << recordingSocket, audioFilePath, resolveAudioPromise,
                  rejectAudioPromise, srvWaiters, wssCb, socketVars, saveVars,
                  promise, checks, escaped >>
  /\ UNCHANGED otherVars

\* shell.openExternal resolved: the connection wait starts (205-220)
OpenExternalDone(c) ==
  /\ pc[c] = "open"
  /\ pc' = [pc EXCEPT ![c] = "poll"]
  /\ checks' = [checks EXCEPT ![c] = 0]
  /\ Quiet
  /\ UNCHANGED << moduleVars, serverVars, socketVars, saveVars, promise, escaped >>
  /\ UNCHANGED otherVars

\* mutant of PollExpired: the comparison is off by one
PollExpiredLate(n) == n > PollLimit + 1

\* the poll gives up: else if (checks++ > 20)
PollExpired(n) == n > PollLimit

\* One run of the interval callback (210-219).  With a client registered the
\* wait resolves, and the start command is sent and the holders are armed
\* (222-231) before anything else runs.
TickOnce(c) ==
  /\ IF recordingSocket # NULL
       THEN /\ sentCmd' = "start"
            /\ resolveAudioPromise' = c
            /\ rejectAudioPromise' = c
            /\ promise' = [promise EXCEPT ![c] = [NoPromise EXCEPT !.st = "pending"]]
            /\ pc' = [pc EXCEPT ![c] = "armed"]
            /\ UNCHANGED << checks, serverVars >>
       ELSE /\ checks' = [checks EXCEPT ![c] = @ + 1]
            /\ sentCmd' = "none"
            /\ UNCHANGED << resolveAudioPromise, rejectAudioPromise >>
            /\ IF PollExpired(checks[c])
                 THEN Throw(c, ErrorObj(TimeoutText))
                 ELSE UNCHANGED << promise, pc, serverVars >>
  /\ stopReturned' = "none"
  /\ UNCHANGED << server, wss, recordingSocket, currentPort, audioFilePath,
                  socketVars, saveVars, escaped >>
  /\ UNCHANGED otherVars

\* one tick of the 500 ms interval
PollTick(c) ==
  /\ pc[c] = "poll"
  /\ TickOnce(c)

\* The connection wait as the session runs see it: the ticks that find no
\* client and do not give up pass with nothing else happening between them;
\* the tick that finds a client, and the tick that gives up, are TickOnce.
PollWait(c) ==
  /\ pc[c] = "poll"
  /\ IF recordingSocket = NULL /\ ~PollExpired(checks[c])
       THEN /\ checks' = [checks EXCEPT ![c] = PollLimit + 1]
            /\ Quiet
            /\ UNCHANGED << moduleVars, serverVars, socketVars, saveVars,
                            promise, pc, escaped >>
       ELSE TickOnce(c)
  /\ UNCHANGED otherVars

\* ------------- stopRecordingSession (235-249), recordingRouter.stopSession
\* what the stopSession procedure returns when stopRecordingSession returned
\* without throwing (auth.ts 456-458)
StopSessionReturn == "success"

\* Without a registered client: warn, reject the holder if one is set and
\* return (236-241); otherwise send the stop command (243-245).
StopSession ==
  /\ IF recordingSocket = NULL
       THEN /\ RejectAudio(StringReason(NoConnectionText))
            /\ sentCmd' = "none"
       ELSE /\ sentCmd' = "stop"
            /\ UNCHANGED << promise, pc, serverVars >>
  /\ stopReturned' = StopSessionReturn
  /\ UNCHANGED << moduleVars, socketVars, saveVars, checks, escaped >>
  /\ UNCHANGED otherVars

\* --------------------------------------------- wss.on("connection") (69-75)
\* mutant of CloseSocket: the previous client is not closed
CloseSocketNot(st) == st

\* recordingSocket.close() (73): an open WebSocket starts its close
\* handshake, any other is left as it is
CloseSocket(st) == IF st = "open" THEN "closing" ELSE st

Connect(k) ==
  /\ UsedSockets # Sockets
  /\ k = FirstFree(Sockets, UsedSockets)
  /\ \E s \in Servers :
       /\ srvState[s] = "listening"
       /\ wssState[s] = "open"
       /\ sockSrv' = [sockSrv EXCEPT ![k] = s]
  /\ sockState' = [j \in Sockets |->
                     IF j = k THEN "open"
                     ELSE IF j = recordingSocket THEN CloseSocket(sockState[j])
                     ELSE sockState[j]]
  /\ recordingSocket' = k
  /\ Quiet
  /\ UNCHANGED << server, wss, currentPort, audioFilePath, resolveAudioPromise,
                  rejectAudioPromise, serverVars, saveVars, callVars, escaped >>
  /\ UNCHANGED otherVars

\* a frame can still arrive from a socket whose close handshake has begun
CanDeliver(k) == sockState[k] \in {"open", "closing"}

\* saveAudioData(buffer) up to its first await, fs.mkdir (172-176)
SaveBegin(buffer) ==
  /\ UsedSaves # SaveIds
  /\ saves' = [saves EXCEPT ![FirstFree(SaveIds, UsedSaves)] =
                 [pc |-> "mkdir", data |-> buffer, path |-> NULL]]
  /\ UNCHANGED << files, clock >>

\* ws.on("message"), audioBlob with an array as payload.data (87-100)
MsgAudioBlob(k, arr) ==
  /\ CanDeliver(k)
  /\ SaveBegin(BufferFrom(arr))
  /\ Quiet
  /\ UNCHANGED << moduleVars, serverVars, socketVars, callVars, escaped >>
  /\ UNCHANGED otherVars

\* ws.on("message"), audioBlob whose payload.data is not an array (101-108)
MsgInvalidAudio(k) ==
  /\ CanDeliver(k)
  /\ RejectAudio(StringReason(InvalidAudioText))
  /\ Quiet
  /\ UNCHANGED << moduleVars, socketVars, saveVars, checks, escaped >>
  /\ UNCHANGED otherVars

\* ws.on("message"), { type: "error", payload: m } (109-115)
MsgError(k, m) ==
  /\ CanDeliver(k)
  /\ RejectAudio(StringReason(m))
  /\ Quiet
  /\ UNCHANGED << moduleVars, socketVars, saveVars, checks, escaped >>
  /\ UNCHANGED otherVars

\* ws.on("message"), type "error" with payload null or absent (109-114):
\* rejectAudioPromise(parsedMessage.payload) rejects with null / undefined
MsgErrorNoPayload(k) ==
  /\ CanDeliver(k)
  /\ RejectAudio(NullReason)
  /\ Quiet
  /\ UNCHANGED << moduleVars, socketVars, saveVars, checks, escaped >>
  /\ UNCHANGED otherVars

\* ws.on("message"), an audioBlob whose payload is no object or has no data
\* field: the condition of 87-91 fails, so does the test for "error" (109),
\* and the handler returns after its log line (as it does for a status
\* message, 84-86, and for a message of any other type)
MsgAudioNoData(k) ==
  /\ CanDeliver(k)
  /\ Quiet
  /\ UNCHANGED << moduleVars, serverVars, socketVars, saveVars, callVars, escaped >>
  /\ UNCHANGED otherVars

\* Is a frame handed to the handler as a Buffer?  A binary frame always is.
\* A text frame is one with ws 8 (every message is a Buffer, the second
\* argument tells text from binary) and a string with ws 7: the source does
\* not fix the version, TextAsBuffer is either.
IsBuffer(binary, TextAsBuffer) == binary \/ TextAsBuffer

\* ws.on("message"), JSON.parse throws (116-133): a Buffer is saved as raw
\* audio, anything else rejects
MsgNotJson(k, frame, binary, TextAsBuffer) ==
  /\ CanDeliver(k)
  /\ IF IsBuffer(binary, TextAsBuffer)
       THEN /\ SaveBegin(frame)
            /\ UNCHANGED << promise, pc, serverVars >>
       ELSE /\ RejectAudio(StringReason(InvalidMessageText))
            /\ UNCHANGED saveVars
  /\ Quiet
  /\ UNCHANGED << moduleVars, socketVars, checks, escaped >>
  /\ UNCHANGED otherVars

\* ws.on("error") (144-150)
SocketError(k) ==
  /\ CanDeliver(k)
  /\ recordingSocket' = IF k = recordingSocket THEN NULL ELSE recordingSocket
  /\ RejectAudio(ErrorObj(SocketErrorText))
  /\ sockState' = [sockState EXCEPT ![k] = "errored"]
  /\ Quiet
  /\ UNCHANGED << server, wss, currentPort, audioFilePath, resolveAudioPromise,
                  rejectAudioPromise, sockSrv, saveVars, checks, escaped >>
  /\ UNCHANGED otherVars

\* The connection of client k ends (the tab is closed, the close handshake
\* completes, or the socket is destroyed after an error).  No handler of
\* recording.ts runs yet: the HTTP server counts the connection out at once,
\* the WebSocket emits 'close' afterwards.
SocketGone(k) ==
  /\ sockState[k] \in {"open", "closing", "errored"}
  /\ sockState' = [sockState EXCEPT ![k] = "gone"]
  /\ Quiet
  /\ UNCHANGED << moduleVars, serverVars, sockSrv, saveVars, callVars, escaped >>
  /\ UNCHANGED otherVars

\* a close handler that rejects the pending session as the error handler does
SocketCloseRejects(k) ==
  /\ sockState[k] = "gone"
  /\ recordingSocket' = IF k = recordingSocket THEN NULL ELSE recordingSocket
  /\ RejectAudio(ErrorObj(SocketErrorText))
  /\ sockState' = [sockState EXCEPT ![k] = "closed"]
  /\ Quiet
  /\ UNCHANGED << server, wss, currentPort, audioFilePath, resolveAudioPromise,
                  rejectAudioPromise, sockSrv, saveVars, checks, escaped >>
  /\ UNCHANGED otherVars

\* a close handler that clears the slot whichever client closed
SocketCloseAlways(k) ==
  /\ sockState[k] = "gone"
  /\ recordingSocket' = NULL
  /\ sockState' = [sockState EXCEPT ![k] = "closed"]
  /\ Quiet
  /\ UNCHANGED << server, wss, currentPort, audioFilePath, resolveAudioPromise,
                  rejectAudioPromise, serverVars, sockSrv, saveVars, callVars,
                  escaped >>
  /\ UNCHANGED otherVars

\* ws.on("close") (136-142)
SocketClose(k) ==
  /\ sockState[k] = "gone"
  /\ recordingSocket' = IF k = recordingSocket THEN NULL ELSE recordingSocket
  /\ sockState' = [sockState EXCEPT ![k] = "closed"]
  /\ Quiet
  /\ UNCHANGED << server, wss, currentPort, audioFilePath, resolveAudioPromise,
                  rejectAudioPromise, serverVars, sockSrv, saveVars, callVars,
                  escaped >>
  /\ UNCHANGED otherVars

\* ------------------------------------------------ saveAudioData (172-199)
\* the saves that have started writeFile on path p and not finished
Writers(p) == { t \in SaveIds : saves[t].pc = "write" /\ saves[t].path = p }

SaveDone == [pc |-> "done", data |-> <<>>, path |-> NULL]

\* mutant of SaveThrows: saveAudioData without its catch
SaveThrowsUncaught(ok) == ~ok

\* does a failure of mkdir / writeFile leave saveAudioData as an exception?
\* (the try / catch of 173-193 handles it)
SaveThrows(ok) == FALSE

\* mutant of SaveFailed: the catch does not reset audioFilePath
SaveFailedKeepsPath(t) ==
  /\ UNCHANGED audioFilePath
  /\ RejectAudio(ErrorObj(WriteErrorText))
  /\ resolveAudioPromise' = NULL
  /\ rejectAudioPromise' = NULL
  /\ saves' = [saves EXCEPT ![t] = [pc |-> "done", data |-> <<>>, path |-> NULL]]

\* catch (188-193) and finally (194-198): the failure path
SaveFailed(t) ==
  /\ audioFilePath' = NULL
  /\ RejectAudio(ErrorObj(WriteErrorText))
  /\ resolveAudioPromise' = NULL
  /\ rejectAudioPromise' = NULL
  /\ saves' = [saves EXCEPT ![t] = SaveDone]

\* fs.mkdir settled (176-180): audioFilePath is set from Date.now() and
\* writeFile is started on it.  The first save gets timestamp 1; a later one
\* the timestamp of the save before it (sameMs) or the next.
MkdirDone(t, ok, sameMs) ==
  /\ saves[t].pc = "mkdir"
  /\ IF ok
       THEN /\ clock' = (IF sameMs /\ clock # 0 THEN clock ELSE clock + 1)
            /\ audioFilePath' = clock'
            /\ files' = [files EXCEPT ![clock'] = [st |-> "partial", bytes |-> <<>>]]
            /\ saves' = [saves EXCEPT ![t] = [@ EXCEPT !.pc = "write", !.path = clock']]
            /\ UNCHANGED << resolveAudioPromise, rejectAudioPromise, callVars, serverVars >>
       ELSE /\ SaveFailed(t)
            /\ UNCHANGED << clock, files, checks >>
  /\ escaped' = (escaped \/ SaveThrows(ok))
  /\ Quiet
  /\ UNCHANGED << server, wss, recordingSocket, currentPort, socketVars >>
  /\ UNCHANGED otherVars

\* fs.writeFile settled (180-198): on success the holder is called with the
\* module-level audioFilePath, then both holders are cleared
WriteDone(t, ok) ==
  /\ saves[t].pc = "write"
  /\ IF ok
       THEN /\ files' = [files EXCEPT ![saves[t].path] =
                           IF Writers(saves[t].path) = {t}
                             THEN [st |-> "complete", bytes |-> saves[t].data]
                             ELSE @]
            /\ ResolveAudio(audioFilePath)
            /\ resolveAudioPromise' = NULL
            /\ rejectAudioPromise' = NULL
            /\ saves' = [saves EXCEPT ![t] = SaveDone]
            /\ UNCHANGED audioFilePath
       ELSE /\ SaveFailed(t)
            /\ UNCHANGED files
  /\ escaped' = (escaped \/ SaveThrows(ok))
  /\ Quiet
  /\ UNCHANGED << server, wss, recordingSocket, currentPort, socketVars, clock,
                  checks >>
  /\ UNCHANGED otherVars

\* --------------------------------------------------------- specification
\* what clients, the file system and the servers' close events do
Environment ==
  \/ \E k \in Sockets : Connect(k) /\ UNCHANGED wireVars
  \/ \E k \in Sockets, arr \in Payloads : MsgAudioBlob(k, arr) /\ UNCHANGED wireVars
  \/ \E k \in Sockets : MsgInvalidAudio(k) /\ UNCHANGED wireVars
  \/ \E k \in Sockets, m \in ClientErrors : MsgError(k, m) /\ UNCHANGED wireVars
  \/ \E k \in Sockets : SocketError(k) /\ UNCHANGED wireVars
  \/ \E k \in Sockets : SocketGone(k) /\ UNCHANGED wireVars
  \/ \E k \in Sockets : SocketClose(k) /\ UNCHANGED wireVars
  \/ \E t \in SaveIds, ok \in BOOLEAN, sameMs \in BOOLEAN : MkdirDone(t, ok, sameMs) /\ UNCHANGED wireVars
  \/ \E t \in SaveIds, ok \in BOOLEAN : WriteDone(t, ok) /\ UNCHANGED wireVars

\* no startSession request is between its invocation and its return
NoneInProgress == \A d \in Calls : pc[d] \in {"idle", "done"}

\* Sessions as the RecordingControls component issues them: one after the
\* other, against any behaviour of clients and file system.
Next ==
  \/ \E c \in Calls : NoneInProgress /\ StartSession(c) /\ UNCHANGED wireVars
  \/ \E c \in Calls : ServerCreate(c) /\ UNCHANGED wireVars
  \/ \E c \in Calls : OpenExternalDone(c) /\ UNCHANGED wireVars
  \/ \E c \in Calls : PollWait(c) /\ UNCHANGED wireVars
  \/ StopSession /\ UNCHANGED wireVars
  \/ \E s \in Servers : WssClosed(s) /\ UNCHANGED wireVars
  \/ \E s \in Servers : SrvClosed(s) /\ UNCHANGED wireVars
  \/ Environment

Spec == Init /\ [][Next]_vars

\* Overlapping startSession requests (the procedure itself accepts them),
\* with one recorder tab that delivers one recording or one error.
NextOverlap ==
  \/ \E c \in Calls : StartSession(c) /\ UNCHANGED wireVars
  \/ \E c \in Calls : ServerCreate(c) /\ UNCHANGED wireVars
  \/ \E c \in Calls : OpenExternalDone(c) /\ UNCHANGED wireVars
  \/ \E c \in Calls : PollWait(c) /\ UNCHANGED wireVars
  \/ \E s \in Servers : WssClosed(s) /\ UNCHANGED wireVars
  \/ \E s \in Servers : SrvClosed(s) /\ UNCHANGED wireVars
  \/ \E k \in Sockets : UsedSockets = {} /\ Connect(k) /\ UNCHANGED wireVars
  \/ \E k \in Sockets, arr \in Payloads : UsedSaves = {} /\ MsgAudioBlob(k, arr) /\ UNCHANGED wireVars
  \/ \E k \in Sockets, m \in ClientErrors : MsgError(k, m) /\ UNCHANGED wireVars
  \/ \E k \in Sockets : SocketGone(k) /\ UNCHANGED wireVars
  \/ \E k \in Sockets : SocketClose(k) /\ UNCHANGED wireVars
  \/ \E t \in SaveIds, ok \in BOOLEAN, sameMs \in BOOLEAN : MkdirDone(t, ok, sameMs) /\ UNCHANGED wireVars
  \/ \E t \in SaveIds, ok \in BOOLEAN : WriteDone(t, ok) /\ UNCHANGED wireVars

SpecOverlap == Init /\ [][NextOverlap]_vars

\* No recorder page ever connects: the connection wait tick by tick.
NextWait ==
  \/ \E c \in Calls : StartSession(c) /\ UNCHANGED wireVars
  \/ \E c \in Calls : ServerCreate(c) /\ UNCHANGED wireVars
  \/ \E c \in Calls : OpenExternalDone(c) /\ UNCHANGED wireVars
  \/ \E c \in Calls : PollTick(c) /\ UNCHANGED wireVars
  \/ StopSession /\ UNCHANGED wireVars
  \/ \E s \in Servers : WssClosed(s) /\ UNCHANGED wireVars
  \/ \E s \in Servers : SrvClosed(s) /\ UNCHANGED wireVars

SpecWait == Init /\ [][NextWait]_vars

\* no startRecordingServer call is between its getPort and its listen
NoServerStarting == \A d \in Calls : pc[d] # "getPort"

\* The server functions on their own: startRecordingServer calls that do not
\* overlap each other (a call is at "open" once it has returned), direct
\* stopRecordingServer calls at any moment, clients that come and go.
NextServer ==
  \/ \E c \in Calls : NoServerStarting /\ StartSession(c) /\ UNCHANGED wireVars
  \/ \E c \in Calls : ServerCreate(c) /\ UNCHANGED wireVars
  \/ \E x \in Stops : StopServer(x) /\ UNCHANGED wireVars
  \/ \E s \in Servers : WssClosed(s) /\ UNCHANGED wireVars
  \/ \E s \in Servers : SrvClosed(s) /\ UNCHANGED wireVars
  \/ \E k \in Sockets : Connect(k) /\ UNCHANGED wireVars
  \/ \E k \in Sockets : SocketGone(k) /\ UNCHANGED wireVars
  \/ \E k \in Sockets : SocketClose(k) /\ UNCHANGED wireVars

SpecServer == Init /\ [][NextServer]_vars

\* The server functions with the event loop running: a call goes on after
\* getPort, the close callbacks run once the servers can emit 'close', and the
\* close handler of a connection that has ended runs; a connection on which
\* close() was called ends (the peer answers the close frame, or ws destroys
\* the socket when its close timer runs out).  When a client ends an open
\* connection, and when anyone calls a function, is up to them.
FairServer ==
  /\ \A k \in Sockets :
       WF_vars(sockState[k] = "closing" /\ SocketGone(k) /\ UNCHANGED wireVars)
  /\ \A c \in Calls : WF_vars(ServerCreate(c) /\ UNCHANGED wireVars)
  /\ \A s \in Servers : WF_vars(WssClosed(s) /\ UNCHANGED wireVars)
  /\ \A s \in Servers : WF_vars(SrvClosed(s) /\ UNCHANGED wireVars)
  /\ \A k \in Sockets : WF_vars(SocketClose(k) /\ UNCHANGED wireVars)

SpecTeardown == Init /\ [][NextServer]_vars /\ FairServer

\* Every kind of frame a recorder tab can send, with one tab and sessions
\* issued one after the other.
NextFrames ==
  \/ \E c \in Calls : NoneInProgress /\ StartSession(c) /\ UNCHANGED wireVars
  \/ \E c \in Calls : ServerCreate(c) /\ UNCHANGED wireVars
  \/ \E c \in Calls : OpenExternalDone(c) /\ UNCHANGED wireVars
  \/ \E c \in Calls : PollWait(c) /\ UNCHANGED wireVars
  \/ \E s \in Servers : WssClosed(s) /\ UNCHANGED wireVars
  \/ \E s \in Servers : SrvClosed(s) /\ UNCHANGED wireVars
  \/ \E k \in Sockets : UsedSockets = {} /\ Connect(k) /\ UNCHANGED wireVars
  \/ \E k \in Sockets : SocketGone(k) /\ UNCHANGED wireVars
  \/ \E k \in Sockets : SocketClose(k) /\ UNCHANGED wireVars
  \/ \E k \in Sockets, arr \in Payloads : MsgAudioBlob(k, arr) /\ UNCHANGED wireVars
  \/ \E k \in Sockets : MsgErrorNoPayload(k) /\ UNCHANGED wireVars
  \/ \E k \in Sockets : MsgInvalidAudio(k) /\ UNCHANGED wireVars
  \/ \E k \in Sockets : MsgAudioNoData(k) /\ UNCHANGED wireVars
  \/ \E k \in Sockets, frame \in Payloads : MsgNotJson(k, frame, TRUE, TRUE) /\ UNCHANGED wireVars
  \/ \E k \in Sockets, frame \in MalformedTexts, TextAsBuffer \in BOOLEAN :
       MsgNotJson(k, frame, FALSE, TextAsBuffer) /\ UNCHANGED wireVars
  \/ \E t \in SaveIds, ok \in BOOLEAN, sameMs \in BOOLEAN : MkdirDone(t, ok, sameMs) /\ UNCHANGED wireVars
  \/ \E t \in SaveIds, ok \in BOOLEAN : WriteDone(t, ok) /\ UNCHANGED wireVars

SpecFrames == Init /\ [][NextFrames]_vars

\* Server start and stop with some ports already held by other processes.
\* PortA + 1 is a port of the range that is not one of the two named to getPort.
OtherPorts == { PortA, PortA + 1, PortB }

InitPort ==
  /\ InitHost
  /\ occupied \in SUBSET OtherPorts
  /\ InitCodecIdle
  /\ InitEngine
  /\ InitWire
  /\ InitSide

SpecPort == InitPort /\ [][NextServer]_vars

\* ------------------------- the audio bytes on the wire (recorder.js 200-209,
\* recording.ts 79, 95-100)
\* the bytes a blob may hold: one, two and three decimal digits, both sides of
\* the sign bit
ByteSamples == { 0, 9, 10, 128, 255 }
RECURSIVE SeqsUpTo(_, _)
SeqsUpTo(S, n) ==
  IF n = 0 THEN { << >> }
  ELSE LET shorter == SeqsUpTo(S, n - 1)
       IN  shorter \cup { Append(q, x) : q \in { r \in shorter : Len(r) = n - 1 }, x \in S }
ByteSeqs == SeqsUpTo(ByteSamples, MaxLen)

\* character codes of the JSON text
LBracket == 91
RBracket == 93
Comma == 44
Zero == 48

\* new Uint8Array(arrayBuffer), then Array.from: one number per byte
ArrayFrom(bytes) == [i \in DOMAIN bytes |-> bytes[i]]

\* a digit-dropping number writer: only the last digit is written
DigitsLast(n) == << Zero + (n % 10) >>

\* JSON.stringify of a non-negative integer: its decimal digits
RECURSIVE Digits(_)
Digits(n) ==
  IF n < 10 THEN << Zero + n >> ELSE Digits(n \div 10) \o << Zero + (n % 10) >>

RECURSIVE Join(_)
Join(arr) ==
  IF arr = << >> THEN << >>
  ELSE IF Len(arr) = 1 THEN Digits(arr[1])
  ELSE Digits(arr[1]) \o << Comma >> \o Join(Tail(arr))

\* JSON.stringify of the data array
JSONStringify(arr) == << LBracket >> \o Join(arr) \o << RBracket >>

RECURSIVE ParseFrom(_, _, _, _, _)
ParseFrom(text, i, cur, has, out) ==
  IF text[i] = RBracket THEN (IF has THEN Append(out, cur) ELSE out)
  ELSE IF text[i] = Comma THEN ParseFrom(text, i + 1, 0, FALSE, Append(out, cur))
  ELSE ParseFrom(text, i + 1, cur * 10 + (text[i] - Zero), TRUE, out)

\* JSON.parse of the text of an array of non-negative integers
JSONParse(text) == ParseFrom(text, 2, 0, FALSE, << >>)

\* onstop: the blob's bytes become the data array of the audioBlob message
EngineEncode ==
  /\ bytesIn # Nothing /\ wireText = Nothing
  /\ wireText' = JSONStringify(ArrayFrom(bytesIn))
  /\ UNCHANGED << hostVars, occupied, engineVars, sideVars, bytesIn, bytesOut >>

\* the message handler: JSON.parse, then Buffer.from(message.payload.data)
HostDecode ==
  /\ wireText # Nothing /\ bytesOut = Nothing
  /\ bytesOut' = BufferFrom(JSONParse(wireText))
  /\ UNCHANGED << hostVars, occupied, engineVars, sideVars, bytesIn, wireText >>

InitCodec ==
  /\ InitHost
  /\ occupied = {}
  /\ bytesIn \in ByteSeqs /\ wireText = Nothing /\ bytesOut = Nothing
  /\ InitEngine
  /\ InitWire
  /\ InitSide

NextCodec ==
  \/ EngineEncode /\ UNCHANGED wireVars
  \/ HostDecode /\ UNCHANGED wireVars

SpecCodec == InitCodec /\ [][NextCodec]_vars

\* ------------------------------------------------ recorder.js, the engine
\* The engine state a handler run works on: the page's variables, the
\* browser objects it acts on and the record of what the run has done.
Eng ==
  [ ws |-> ws, mediaRecorder |-> mediaRecorder, audioChunks |-> audioChunks,
    micStream |-> micStream, screenStream |-> screenStream,
    audioContext |-> audioContext,
    mixedStreamDestination |-> mixedStreamDestination,
    micSource |-> micSource, screenSource |-> screenSource,
    recState |-> recState, recEvent |-> recEvent,
    liveMic |-> liveMic, liveScreen |-> liveScreen, openCtx |-> openCtx,
    did |-> << >> ]

\* the handler run ends: its engine state becomes the page's
Commit(e) ==
  /\ ws' = e.ws /\ mediaRecorder' = e.mediaRecorder
  /\ audioChunks' = e.audioChunks
  /\ micStream' = e.micStream /\ screenStream' = e.screenStream
  /\ audioContext' = e.audioContext
  /\ mixedStreamDestination' = e.mixedStreamDestination
  /\ micSource' = e.micSource /\ screenSource' = e.screenSource
  /\ recState' = e.recState /\ recEvent' = e.recEvent
  /\ liveMic' = e.liveMic /\ liveScreen' = e.liveScreen /\ openCtx' = e.openCtx
  /\ did' = e.did

\* what the engine actions leave alone
restVars == << hostVars, occupied, codecVars, sideVars >>

\* the page has not been unloaded
Loaded == ws # "gone"

\* sendMessage (35-46): nothing is sent unless the socket is open
SendMessage(e, type) ==
  IF e.ws = "open" THEN [e EXCEPT !.did = Append(@, type)] ELSE e

\* displayError (24-33): the error goes to the host only over an open socket
DisplayError(e) == IF e.ws = "open" THEN SendMessage(e, "error") ELSE e

\* a cleanup that leaves the streams, the sources and the context as they are
CleanupRecorderOnly(e) ==
  [e EXCEPT !.mediaRecorder = NULL, !.audioChunks = << >>,
            !.did = Append(@, "cleanup")]

\* cleanupStreams (266-297): a recorder that is not inactive is stopped (its
\* stop event follows), the tracks of both streams are stopped, the context
\* is closed and every reference is cleared
CleanupStreams(e) ==
  LET r == e.mediaRecorder
      active == r # NULL /\ e.recState[r] # "inactive"
  IN  [e EXCEPT
         !.recState = IF active THEN [@ EXCEPT ![r] = "inactive"] ELSE @,
         !.recEvent = IF active THEN [@ EXCEPT ![r] = "stop"] ELSE @,
         !.mediaRecorder = NULL,
         !.liveMic = @ \ {e.micStream},
         !.liveScreen = @ \ {e.screenStream},
         !.micStream = NULL, !.screenStream = NULL,
         !.micSource = NULL, !.screenSource = NULL,
         !.openCtx = @ \ {e.audioContext},
         !.audioContext = NULL, !.mixedStreamDestination = NULL,
         !.audioChunks = << >>,
         !.did = Append(@, "cleanup")]

\* ws.onopen (57-61)
WsOpen ==
  /\ ws = "connecting"
  /\ Commit(SendMessage([Eng EXCEPT !.ws = "open"], "status"))
  /\ UNCHANGED << startPc, produced, blob, blobsSent, audioMic, audioScreen, restVars >>

\* ws.onerror (79-82)
WsError ==
  /\ ws \in {"connecting", "open"}
  /\ Commit(DisplayError(Eng))
  /\ UNCHANGED << startPc, produced, blob, blobsSent, audioMic, audioScreen, restVars >>

\* ws.onclose (84-89)
WsClose ==
  /\ ws \in {"connecting", "open"}
  /\ Commit([Eng EXCEPT !.ws = "null"])
  /\ UNCHANGED << startPc, produced, blob, blobsSent, audioMic, audioScreen, restVars >>

\* the guard of startRecording (93-96)
AlreadyRecording == mediaRecorder # NULL /\ recState[mediaRecorder] = "recording"

\* onmessage with the start command (63-73), startRecording up to its first
\* await (92-103)
CmdStart(c) ==
  /\ ws = "open"
  /\ startPc[c] = "none" /\ \A d \in Starts : d < c => startPc[d] # "none"
  /\ ~AlreadyRecording
  /\ Commit([Eng EXCEPT !.audioChunks = << >>])
  /\ startPc' = [startPc EXCEPT ![c] = "mic"]
  /\ UNCHANGED << produced, blob, blobsSent, audioMic, audioScreen, restVars >>

\* onmessage with the start command while recording: startRecording returns
\* at once (93-96)
CmdStartIgnored ==
  /\ ws = "open"
  /\ AlreadyRecording
  /\ Commit(Eng)
  /\ UNCHANGED << startPc, produced, blob, blobsSent, audioMic, audioScreen, restVars >>

\* a catch block that cleans up before it reports
StartFailedCleanupFirst(e) == DisplayError(CleanupStreams(e))

\* catch of startRecording (245-249)
StartFailed(e) == CleanupStreams(DisplayError(e))

\* getUserMedia resolved (103-112)
MicGranted(c, hasAudio) ==
  /\ Loaded /\ startPc[c] = "mic"
  /\ Commit([Eng EXCEPT !.micStream = c, !.liveMic = @ \cup {c}])
  /\ audioMic' = IF hasAudio THEN audioMic \cup {c} ELSE audioMic
  /\ startPc' = [startPc EXCEPT ![c] = "screen"]
  /\ UNCHANGED << produced, blob, blobsSent, audioScreen, restVars >>

\* getUserMedia rejected
MicDenied(c) ==
  /\ Loaded /\ startPc[c] = "mic"
  /\ Commit(StartFailed(Eng))
  /\ startPc' = [startPc EXCEPT ![c] = "done"]
  /\ UNCHANGED << produced, blob, blobsSent, audioMic, audioScreen, restVars >>

\* getDisplayMedia rejected
ScreenDenied(c) ==
  /\ Loaded /\ startPc[c] = "screen"
  /\ Commit(StartFailed(Eng))
  /\ startPc' = [startPc EXCEPT ![c] = "done"]
  /\ UNCHANGED << produced, blob, blobsSent, audioMic, audioScreen, restVars >>

\* what can throw between getDisplayMedia and the end of startRecording: the
\* AudioContext graph (127-128), the MediaRecorder constructor (174), start (241)
Failures == { "none", "graph", "ctor", "start" }

\* a mixer that connects the microphone whether or not it has an audio track
MixSourcesAlways(e, c, micHas, scrHas) ==
  LET e1 == [e EXCEPT !.micSource = c]
  IN  IF scrHas THEN [e1 EXCEPT !.screenSource = c] ELSE SendMessage(e1, "status")

\* The sources of call c connected to its mix destination (130-155): one for
\* each stream the page holds that has an audio track; a source carries the
\* number of the call whose destination it feeds.  Missing screen audio is
\* reported as a status.
MixSources(e, c, micHas, scrHas) ==
  LET e1 == IF micHas THEN [e EXCEPT !.micSource = c] ELSE e
  IN  IF scrHas THEN [e1 EXCEPT !.screenSource = c] ELSE SendMessage(e1, "status")

\* a check that lets a recording without any audio track go on
NoAudioTracksNever(micHas, scrHas) == FALSE

\* if (!hasMicAudio && !hasScreenAudio) throw (157-161)
NoAudioTracks(micHas, scrHas) == ~micHas /\ ~scrHas

\* getDisplayMedia resolved: the rest of startRecording runs (118-249)
ScreenGranted(c, hasAudio, fail) ==
  /\ Loaded /\ startPc[c] = "screen"
  /\ LET e0 == [Eng EXCEPT !.screenStream = c, !.liveScreen = @ \cup {c}]
         e1 == [e0 EXCEPT !.audioContext = c, !.openCtx = @ \cup {c},
                          !.mixedStreamDestination = c]
         hasMicAudio == e1.micStream # NULL /\ e1.micStream \in audioMic
         hasScreenAudio == hasAudio
         e2 == MixSources(e1, c, hasMicAudio, hasScreenAudio)
         e3 == [e2 EXCEPT !.mediaRecorder = c, !.recState[c] = "inactive"]
         e4 == [e3 EXCEPT !.recState[c] = "recording"]
     IN  Commit(
           IF fail = "graph" THEN StartFailed(e0)
           ELSE IF NoAudioTracks(hasMicAudio, hasScreenAudio) THEN StartFailed(e2)
           ELSE IF fail = "ctor" THEN StartFailed(e2)
           ELSE IF fail = "start" THEN StartFailed(e3)
           ELSE SendMessage(e4, "status"))
  /\ audioScreen' = IF hasAudio THEN audioScreen \cup {c} ELSE audioScreen
  /\ startPc' = [startPc EXCEPT ![c] = "done"]
  /\ UNCHANGED << produced, blob, blobsSent, audioMic, restVars >>

\* ondataavailable with a chunk that is not empty (176-183)
DataAvailable(r) ==
  /\ Loaded /\ recState[r] = "recording"
  /\ produced[r] < MaxChunks
  /\ Commit([Eng EXCEPT !.audioChunks = Append(@, r)])
  /\ produced' = [produced EXCEPT ![r] = @ + 1]
  /\ UNCHANGED << startPc, blob, blobsSent, audioMic, audioScreen, restVars >>

\* a test that takes an inactive recorder for one that records
NotRecordingNoRecorder == mediaRecorder = NULL

\* the test of stopRecording (253)
NotRecording == mediaRecorder = NULL \/ recState[mediaRecorder] = "inactive"

\* onmessage with the stop command (63-73), stopRecording (252-264)
CmdStop ==
  /\ ws = "open"
  /\ IF NotRecording
       THEN Commit(SendMessage(Eng, "status"))
       ELSE Commit(SendMessage(
              [Eng EXCEPT !.recState[mediaRecorder] = "inactive",
                          !.recEvent[mediaRecorder] = "stop"], "status"))
  /\ UNCHANGED << startPc, produced, blob, blobsSent, audioMic, audioScreen, restVars >>

\* The stop event of recorder r, after the last dataavailable (176-199): the
\* blob is built from the chunk buffer and the buffer is emptied.  With no
\* recorder in mediaRecorder, reading its mimeType (191) throws before that.
RecStop(r, last) ==
  /\ Loaded /\ recEvent[r] = "stop"
  /\ LET more == last /\ produced[r] < MaxChunks
         chunks == IF more THEN Append(audioChunks, r) ELSE audioChunks
     IN  /\ produced' = [produced EXCEPT ![r] = IF more THEN @ + 1 ELSE @]
         /\ IF mediaRecorder = NULL
              THEN /\ Commit([Eng EXCEPT !.audioChunks = chunks,
                                         !.recEvent[r] = "over",
                                         !.did = << "throw" >>])
                   /\ UNCHANGED blob
              ELSE /\ Commit([Eng EXCEPT !.audioChunks = << >>,
                                         !.recEvent[r] = "blob"])
                   /\ blob' = [blob EXCEPT ![r] = chunks]
  /\ UNCHANGED << startPc, blobsSent, audioMic, audioScreen, restVars >>

\* audioBlob.arrayBuffer() settled: the rest of onstop (200-229)
RecBlob(r, ok) ==
  /\ Loaded /\ recEvent[r] = "blob"
  /\ LET e0 == [Eng EXCEPT !.recEvent[r] = "over"]
     IN  Commit(CleanupStreams(IF ok THEN SendMessage(e0, "audioBlob")
                                     ELSE DisplayError(e0)))
  /\ blobsSent' = [blobsSent EXCEPT ![r] = IF ok /\ ws = "open" THEN @ + 1 ELSE @]
  /\ UNCHANGED << startPc, produced, blob, audioMic, audioScreen, restVars >>

\* The error event of a recording MediaRecorder (232-238).  The browser has
\* made the recorder inactive and fires its stop event afterwards.
RecError(r) ==
  /\ Loaded /\ recState[r] = "recording"
  /\ Commit(CleanupStreams(DisplayError(
       [Eng EXCEPT !.recState[r] = "inactive", !.recEvent[r] = "stop"])))
  /\ UNCHANGED << startPc, produced, blob, blobsSent, audioMic, audioScreen, restVars >>

\* beforeunload (303-307)
Unload ==
  /\ Loaded
  /\ Commit([CleanupStreams(SendMessage(Eng, "status")) EXCEPT !.ws = "gone"])
  /\ UNCHANGED << startPc, produced, blob, blobsSent, audioMic, audioScreen, restVars >>

NextEngine ==
  \/ WsOpen /\ UNCHANGED wireVars
  \/ WsError /\ UNCHANGED wireVars
  \/ WsClose /\ UNCHANGED wireVars
  \/ Unload /\ UNCHANGED wireVars
  \/ \E c \in Starts : CmdStart(c) /\ UNCHANGED wireVars
  \/ CmdStartIgnored /\ UNCHANGED wireVars
  \/ \E c \in Starts, hasAudio \in BOOLEAN : MicGranted(c, hasAudio) /\ UNCHANGED wireVars
  \/ \E c \in Starts : MicDenied(c) /\ UNCHANGED wireVars
  \/ \E c \in Starts : ScreenDenied(c) /\ UNCHANGED wireVars
  \/ \E c \in Starts, hasAudio \in BOOLEAN, fail \in Failures :
       ScreenGranted(c, hasAudio, fail) /\ UNCHANGED wireVars
  \/ \E r \in Starts : DataAvailable(r) /\ UNCHANGED wireVars
  \/ CmdStop /\ UNCHANGED wireVars
  \/ \E r \in Starts, last \in BOOLEAN : RecStop(r, last) /\ UNCHANGED wireVars
  \/ \E r \in Starts, ok \in BOOLEAN : RecBlob(r, ok) /\ UNCHANGED wireVars
  \/ \E r \in Starts : RecError(r) /\ UNCHANGED wireVars

SpecEngine == Init /\ [][NextEngine]_vars

\* ------------------------------------ the recorder page and the host together
\* One recorder page connected to the host: the commands the host sends reach
\* the page's onmessage in order, the error and audioBlob messages the page
\* sends reach the host's message handler in order (status messages are only
\* logged by the host, 84-86, and are left out).  Sessions are issued one after
\* the other, so that no start command finds the page recording.
Page == 1

\* the messages of a handler run that go on the wire
Messages(d) == SelectSeq(d, LAMBDA m : m \in {"error", "audioBlob"})

\* recordingSocket.send (223, 246): the command goes out if the socket is open
HostSends ==
  /\ toEngine' = IF sentCmd' # "none" /\ recordingSocket # NULL
                      /\ sockState[recordingSocket] = "open"
                   THEN Append(toEngine, sentCmd') ELSE toEngine
  /\ UNCHANGED toHost

\* ws.send of the page (42)
PageSends == toHost' = toHost \o Messages(did')

\* ws.onmessage of the page (63-77) takes the oldest command
PageTakes(cmd) ==
  /\ toEngine # << >> /\ Head(toEngine) = cmd
  /\ toEngine' = Tail(toEngine)

\* ws.on("message") of the host (77) takes the oldest message
HostTakes(type) ==
  /\ toHost # << >> /\ Head(toHost) = type
  /\ toHost' = Tail(toHost)
  /\ UNCHANGED toEngine

NextSession ==
  \/ \E c \in Calls : NoneInProgress /\ StartSession(c) /\ UNCHANGED wireVars
  \/ \E c \in Calls : ServerCreate(c) /\ UNCHANGED wireVars
  \/ \E c \in Calls : OpenExternalDone(c) /\ UNCHANGED wireVars
  \/ \E c \in Calls : PollWait(c) /\ HostSends
  \/ Len(toEngine) < MaxWire /\ StopSession /\ HostSends
  \/ \E s \in Servers : WssClosed(s) /\ UNCHANGED wireVars
  \/ \E s \in Servers : SrvClosed(s) /\ UNCHANGED wireVars
  \/ \E t \in SaveIds, ok \in BOOLEAN, sameMs \in BOOLEAN :
       MkdirDone(t, ok, sameMs) /\ UNCHANGED wireVars
  \/ \E t \in SaveIds, ok \in BOOLEAN : WriteDone(t, ok) /\ UNCHANGED wireVars
  \/ ws = "connecting" /\ Connect(Page) /\ UNCHANGED wireVars
  \/ sockState[Page] = "open" /\ WsOpen /\ UNCHANGED wireVars
  \/ WsClose /\ UNCHANGED wireVars
  \/ Unload /\ UNCHANGED wireVars
  \/ ws \in {"null", "gone"} /\ SocketGone(Page) /\ UNCHANGED wireVars
  \/ SocketClose(Page) /\ UNCHANGED wireVars
  \/ \E c \in Starts : PageTakes("start") /\ CmdStart(c) /\ PageSends
  \/ PageTakes("stop") /\ CmdStop /\ PageSends
  \/ \E c \in Starts, hasAudio \in BOOLEAN :
       MicGranted(c, hasAudio) /\ PageSends /\ UNCHANGED toEngine
  \/ \E c \in Starts : MicDenied(c) /\ PageSends /\ UNCHANGED toEngine
  \/ \E c \in Starts : ScreenDenied(c) /\ PageSends /\ UNCHANGED toEngine
  \/ \E c \in Starts, hasAudio \in BOOLEAN, fail \in Failures :
       ScreenGranted(c, hasAudio, fail) /\ PageSends /\ UNCHANGED toEngine
  \/ \E r \in Starts : DataAvailable(r) /\ PageSends /\ UNCHANGED toEngine
  \/ \E r \in Starts, last \in BOOLEAN : RecStop(r, last) /\ PageSends /\ UNCHANGED toEngine
  \/ \E r \in Starts, ok \in BOOLEAN : RecBlob(r, ok) /\ PageSends /\ UNCHANGED toEngine
  \/ \E r \in Starts : RecError(r) /\ PageSends /\ UNCHANGED toEngine
  \/ \E m \in ClientErrors : HostTakes("error") /\ MsgError(Page, m)
  \/ \E arr \in Payloads : HostTakes("audioBlob") /\ MsgAudioBlob(Page, arr)

SpecSession == Init /\ [][NextSession]_vars

\* A session in which nothing fails: the recorder page connects and stays
\* connected, both permission prompts are granted with audio, the blob is
\* converted and the file is written.  The user starts sessions one after the
\* other and may ask for a stop at any moment.
NextStop ==
  \/ \E c \in Calls : NoneInProgress /\ StartSession(c) /\ UNCHANGED wireVars
  \/ Len(toEngine) < MaxWire /\ StopSession /\ HostSends
  \/ \E c \in Calls : ServerCreate(c) /\ UNCHANGED wireVars
  \/ \E c \in Calls : OpenExternalDone(c) /\ UNCHANGED wireVars
  \/ \E c \in Calls : PollWait(c) /\ HostSends
  \/ \E s \in Servers : WssClosed(s) /\ UNCHANGED wireVars
  \/ \E s \in Servers : SrvClosed(s) /\ UNCHANGED wireVars
  \/ \E t \in SaveIds, sameMs \in BOOLEAN : MkdirDone(t, TRUE, sameMs) /\ UNCHANGED wireVars
  \/ \E t \in SaveIds : WriteDone(t, TRUE) /\ UNCHANGED wireVars
  \/ ws = "connecting" /\ Connect(Page) /\ UNCHANGED wireVars
  \/ sockState[Page] = "open" /\ WsOpen /\ UNCHANGED wireVars
  \/ \E c \in Starts : PageTakes("start") /\ CmdStart(c) /\ PageSends
  \/ PageTakes("stop") /\ CmdStop /\ PageSends
  \/ \E c \in Starts : MicGranted(c, TRUE) /\ PageSends /\ UNCHANGED toEngine
  \/ \E c \in Starts : ScreenGranted(c, TRUE, "none") /\ PageSends /\ UNCHANGED toEngine
  \/ \E r \in Starts : DataAvailable(r) /\ PageSends /\ UNCHANGED toEngine
  \/ \E r \in Starts, last \in BOOLEAN : RecStop(r, last) /\ PageSends /\ UNCHANGED toEngine
  \/ \E r \in Starts : RecBlob(r, TRUE) /\ PageSends /\ UNCHANGED toEngine
  \/ \E arr \in Payloads : HostTakes("audioBlob") /\ MsgAudioBlob(Page, arr)

\* Every step but the user's two is taken once it stays possible: timers
\* fire, callbacks and events queued by Node and the browser are run, the
\* user answers the prompts.
FairStop ==
  /\ \A c \in Calls : WF_vars(ServerCreate(c) /\ UNCHANGED wireVars)
  /\ \A c \in Calls : WF_vars(OpenExternalDone(c) /\ UNCHANGED wireVars)
  /\ \A c \in Calls : WF_vars(PollWait(c) /\ HostSends)
  /\ \A s \in Servers : WF_vars(WssClosed(s) /\ UNCHANGED wireVars)
  /\ \A s \in Servers : WF_vars(SrvClosed(s) /\ UNCHANGED wireVars)
  /\ \A t \in SaveIds : WF_vars(\E sameMs \in BOOLEAN : MkdirDone(t, TRUE, sameMs) /\ UNCHANGED wireVars)
  /\ \A t \in SaveIds : WF_vars(WriteDone(t, TRUE) /\ UNCHANGED wireVars)
  /\ WF_vars(ws = "connecting" /\ Connect(Page) /\ UNCHANGED wireVars)
  /\ WF_vars(sockState[Page] = "open" /\ WsOpen /\ UNCHANGED wireVars)
  /\ \A c \in Starts : WF_vars(PageTakes("start") /\ CmdStart(c) /\ PageSends)
  /\ WF_vars(PageTakes("stop") /\ CmdStop /\ PageSends)
  /\ \A c \in Starts : WF_vars(MicGranted(c, TRUE) /\ PageSends /\ UNCHANGED toEngine)
  /\ \A c \in Starts : WF_vars(ScreenGranted(c, TRUE, "none") /\ PageSends /\ UNCHANGED toEngine)
  /\ \A r \in Starts : WF_vars(DataAvailable(r) /\ PageSends /\ UNCHANGED toEngine)
  /\ \A r \in Starts : WF_vars(\E last \in BOOLEAN : RecStop(r, last) /\ PageSends /\ UNCHANGED toEngine)
  /\ \A r \in Starts : WF_vars(RecBlob(r, TRUE) /\ PageSends /\ UNCHANGED toEngine)
  /\ WF_vars(\E arr \in Payloads : HostTakes("audioBlob") /\ MsgAudioBlob(Page, arr))

SpecStop == Init /\ [][NextStop]_vars /\ FairStop

\* ------------------------------ RecordingControls (part_000 418-596)
\* what the UI actions leave alone
uiRest == << hostVars, occupied, codecVars, engineVars, wireVars, authVars >>

MissingPathMsg == "Recording finished but the file path was missing or invalid."
StopErrorText == "Failed to stop recording session"
TransportErrorText == "IPC error"

\* What a startSession mutation can settle with: the procedure's result (a
\* path or null with success, an error text with failure, auth.ts 437-448) or
\* an error of the call itself.
StartResponses ==
  { [st |-> "ok", filePath |-> q, error |-> ""] : q \in {NULL, 1} }
  \cup { [st |-> "fail", filePath |-> NULL, error |-> e] :
           e \in {GenericStartError, TimeoutText} }
  \cup { [st |-> "threw", filePath |-> NULL, error |-> TransportErrorText] }

\* What a stopSession mutation can settle with (auth.ts 458, 462-465, or an
\* error of the call itself)
StopResponses ==
  { [st |-> "ok", error |-> ""],
    [st |-> "fail", error |-> StopErrorText],
    [st |-> "threw", error |-> TransportErrorText] }

\* The effect on recordingState (536-551): when the state changes the timer
\* of the previous render is cleared, and a new one is set if the new state
\* is "starting".
EffectTimer(newState) ==
  IF newState = recordingState THEN timer
  ELSE IF newState = "starting" THEN "armed" ELSE "none"

\* setRecordingState and the effect that follows the render
SetRecordingState(newState) ==
  /\ recordingState' = newState
  /\ timer' = EffectTimer(newState)

\* the Start button is enabled (516-517, 556); the Stop button (523-524, 563)
StartEnabled == recordingState \in {"idle", "error"}
StopEnabled == recordingState = "recording"

\* handleStartRecording (516-521): startMutation.mutate(), onMutate (426-431)
HandleStartRecording(m) ==
  /\ StartEnabled
  /\ startMutation[m] = "none" /\ \A j \in StartMuts : j < m => startMutation[j] # "none"
  /\ startMutation' = [startMutation EXCEPT ![m] = "pending"]
  /\ SetRecordingState("starting")
  /\ errorMsg' = NoMsg
  /\ savedPath' = NULL
  /\ UNCHANGED << stopMutation, uiRest >>

\* onSuccess and onError of startMutation (432-475)
StartSettled(m, r) ==
  /\ startMutation[m] = "pending"
  /\ startMutation' = [startMutation EXCEPT ![m] = "settled"]
  /\ IF r.st = "ok" /\ r.filePath # NULL
       THEN /\ savedPath' = r.filePath
            /\ SetRecordingState("idle")
            /\ UNCHANGED errorMsg
       ELSE /\ errorMsg' = (IF r.st = "ok" THEN MissingPathMsg ELSE r.error)
            /\ SetRecordingState("error")
            /\ UNCHANGED savedPath
  /\ UNCHANGED << stopMutation, uiRest >>

\* handleStopRecording (523-529): stopMutation.mutate(), onMutate (480-483)
HandleStopRecording(n) ==
  /\ StopEnabled
  /\ stopMutation[n] = "none" /\ \A j \in StopMuts : j < n => stopMutation[j] # "none"
  /\ stopMutation' = [stopMutation EXCEPT ![n] = "pending"]
  /\ SetRecordingState("stopping")
  /\ UNCHANGED << errorMsg, savedPath, startMutation, uiRest >>

\* onSuccess and onError of stopMutation (484-513)
StopSettled(n, r) ==
  /\ stopMutation[n] = "pending"
  /\ stopMutation' = [stopMutation EXCEPT ![n] = "settled"]
  /\ IF r.st = "ok"
       THEN /\ SetRecordingState("processing")
            /\ UNCHANGED errorMsg
       ELSE /\ errorMsg' = r.error
            /\ SetRecordingState("error")
  /\ UNCHANGED << savedPath, startMutation, uiRest >>

\* the timer set 3 seconds ago in state "starting" fires (540-546): the state
\* its closure holds is "starting"
TimerFires ==
  /\ timer = "armed"
  /\ SetRecordingState("recording")
  /\ UNCHANGED << errorMsg, savedPath, startMutation, stopMutation, uiRest >>

\* The component against every answer and every order of answers.
NextUI ==
  \/ \E m \in StartMuts : HandleStartRecording(m)
  \/ \E m \in StartMuts, r \in StartResponses : StartSettled(m, r)
  \/ \E n \in StopMuts : HandleStopRecording(n)
  \/ \E n \in StopMuts, r \in StopResponses : StopSettled(n, r)
  \/ TimerFires

SpecUI == Init /\ [][NextUI]_vars

\* ------------------------------------- Google OAuth (auth.ts 48-328, 398-412)

authRest == << hostVars, occupied, codecVars, engineVars, wireVars, uiVars >>

\* The values the state parameter of a callback request can carry: none, one
\* of the generated states, or a value the application never generated.
ForeignState == MaxAuthUrls + 1
AuthStates == 0..ForeignState
AuthCodes == {NULL, 1}
Requests == [code : AuthCodes, state : AuthStates, error : BOOLEAN]

\* The part of the state the shared steps below transform.
Auth ==
  [tempVerifier |-> tempVerifier, tempAuthState |-> tempAuthState,
   resolveAuthPromise |-> resolveAuthPromise, rejectAuthPromise |-> rejectAuthPromise,
   callbackServer |-> callbackServer, storedRefreshToken |-> storedRefreshToken,
   hpc |-> hpc, hResult |-> hResult, authPromise |-> authPromise,
   cbState |-> cbState, cbCb |-> cbCb]

CommitAuth(a) ==
  /\ tempVerifier' = a.tempVerifier
  /\ tempAuthState' = a.tempAuthState
  /\ resolveAuthPromise' = a.resolveAuthPromise
  /\ rejectAuthPromise' = a.rejectAuthPromise
  /\ callbackServer' = a.callbackServer
  /\ storedRefreshToken' = a.storedRefreshToken
  /\ hpc' = a.hpc
  /\ hResult' = a.hResult
  /\ authPromise' = a.authPromise
  /\ cbState' = a.cbState
  /\ cbCb' = a.cbCb

\* getAuthStatus (398-403): isAuthenticated is !!token
IsAuthenticated == storedRefreshToken # NULL

ClearTemp(a) == [a EXCEPT !.tempVerifier = NULL, !.tempAuthState = NULL]

\* closeCallbackServer (114-128): close() with a callback that runs once the
\* server has closed; without a server the holders are dropped at once.
CloseCallbackServer(a) ==
  IF a.callbackServer # NULL
  THEN [a EXCEPT !.cbState[a.callbackServer] =
                     IF @ \in {"binding", "listening"} THEN "closing" ELSE @,
                 !.cbCb = @ \cup {a.callbackServer}]
  ELSE [a EXCEPT !.resolveAuthPromise = NULL, !.rejectAuthPromise = NULL]

\* rejectAuthPromise?.(new Error(reason)): a promise settles at most once.
RejectAuth(a, reason) ==
  IF a.rejectAuthPromise # NULL /\ a.authPromise[a.rejectAuthPromise].st = "pending"
  THEN [a EXCEPT !.authPromise[a.rejectAuthPromise] =
                     [st |-> "rejected", code |-> NULL, reason |-> reason]]
  ELSE a

\* resolveAuthPromise?.(code)
ResolveAuth(a, code) ==
  IF a.resolveAuthPromise # NULL /\ a.authPromise[a.resolveAuthPromise].st = "pending"
  THEN [a EXCEPT !.authPromise[a.resolveAuthPromise] =
                     [st |-> "resolved", code |-> code, reason |-> ""]]
  ELSE a

\* The catch and finally blocks of handleGoogleCallback (312-327).
CallbackCatch(a, h) ==
  [ClearTemp(CloseCallbackServer(a)) EXCEPT
     !.storedRefreshToken = NULL,
     !.hpc[h] = "done",
     !.hResult[h] = "threw"]

\* handleGoogleCallback resuming after `await listenForAuthCode` (264): the
\* continuation is a microtask, it runs when the handler that settled the
\* promise returns.  A resolved promise leads to the getToken request (268).
AuthContinue(before, a) ==
  LET hs == { h \in HCalls : before.authPromise[h].st = "pending"
                             /\ a.authPromise[h].st # "pending" }
  IN  IF hs = {} THEN a
      ELSE LET h == CHOOSE x \in hs : TRUE
           IN  IF a.authPromise[h].st = "rejected"
               THEN CallbackCatch(a, h)
               ELSE [a EXCEPT !.hpc[h] = "token"]

\* getGoogleAuthUrl (83-112).  With a callback server present it throws
\* CONFLICT and changes nothing.
GetAuthUrl ==
  /\ authSeq < MaxAuthUrls
  /\ callbackServer = NULL
  /\ authSeq' = authSeq + 1
  /\ tempVerifier' = authSeq + 1
  /\ tempAuthState' = authSeq + 1
  /\ UNCHANGED << resolveAuthPromise, rejectAuthPromise, callbackServer,
                  storedRefreshToken, hpc, hVerifier, authPromise, hResult,
                  cbState, cbCb, cbTimer, inflight >>
  /\ UNCHANGED authRest

FreeCbServer == CHOOSE s \in CbServers : cbState[s] = "none"

\* handleGoogleCallback up to its first await on I/O (240-264), with
\* listenForAuthCode up to listen() (132-236).
HandleCallback(h) ==
  /\ hpc[h] = "idle"
  /\ \A g \in HCalls : g < h => hpc[g] # "idle"
  /\ IF tempVerifier = NULL
     THEN \* BAD_REQUEST, thrown before the try block (255-261)
          /\ hpc' = [hpc EXCEPT ![h] = "done"]
          /\ hResult' = [hResult EXCEPT ![h] = "threw"]
          /\ UNCHANGED << tempVerifier, tempAuthState, resolveAuthPromise,
                          rejectAuthPromise, callbackServer, storedRefreshToken,
                          hVerifier, authPromise, cbState, cbCb, cbTimer >>
     ELSE IF callbackServer # NULL
     THEN \* "Callback server already running." (134-137), caught at 312
          /\ CommitAuth(CallbackCatch(
               [Auth EXCEPT !.authPromise[h] =
                  [st |-> "rejected", code |-> NULL,
                   reason |-> "Callback server already running."]], h))
          /\ hVerifier' = [hVerifier EXCEPT ![h] = tempVerifier]
          /\ UNCHANGED cbTimer
     ELSE /\ \E s \in CbServers : cbState[s] = "none"
          /\ CommitAuth([Auth EXCEPT
               !.resolveAuthPromise = h,
               !.rejectAuthPromise = h,
               !.callbackServer = FreeCbServer,
               !.cbState[FreeCbServer] = "binding",
               !.authPromise[h] = [st |-> "pending", code |-> NULL, reason |-> ""],
               !.hpc[h] = "listen"])
          /\ hVerifier' = [hVerifier EXCEPT ![h] = tempVerifier]
          /\ cbTimer' = [cbTimer EXCEPT ![FreeCbServer] = "armed"]
  /\ UNCHANGED << authSeq, inflight >>
  /\ UNCHANGED authRest

\* callbackServer.listen succeeded (233-235)
ListenOk(s) ==
  /\ cbState[s] = "binding"
  /\ cbState' = [cbState EXCEPT ![s] = "listening"]
  /\ UNCHANGED << tempVerifier, tempAuthState, resolveAuthPromise, rejectAuthPromise,
                  callbackServer, storedRefreshToken, authSeq, hpc, hVerifier,
                  authPromise, hResult, cbCb, cbTimer, inflight >>
  /\ UNCHANGED authRest

\* callbackServer.on("error") (211-217): the port could not be bound
ListenError(s) ==
  /\ cbState[s] = "binding"
  /\ CommitAuth(AuthContinue(Auth,
       ClearTemp(CloseCallbackServer(RejectAuth(Auth, "listen failed")))))
  /\ UNCHANGED << authSeq, hVerifier, cbTimer, inflight >>
  /\ UNCHANGED authRest

\* A browser connects to the callback server; its request has not arrived yet.
CbConnect(s) ==
  /\ cbState[s] = "listening"
  /\ s \notin inflight
  /\ inflight' = inflight \cup {s}
  /\ UNCHANGED << tempVerifier, tempAuthState, resolveAuthPromise, rejectAuthPromise,
                  callbackServer, storedRefreshToken, authSeq, hpc, hVerifier,
                  authPromise, hResult, cbState, cbCb, cbTimer >>
  /\ UNCHANGED authRest

\* The request handler of the callback server (148-209).
RequestHandler(a, req) ==
  LET expectedState == a.tempAuthState
      a0 == ClearTemp(a)
  IN  IF req.error
      THEN CloseCallbackServer(RejectAuth(a0, "OAuth Error"))
      ELSE IF req.state # expectedState
      THEN CloseCallbackServer(RejectAuth(a0, "OAuth state mismatch"))
      ELSE IF req.code # NULL
      THEN CloseCallbackServer(ResolveAuth(a0, req.code))
      ELSE CloseCallbackServer(RejectAuth(a0, "No authorization code received."))

\* A request arrives on an open connection of server s; the response ends
\* the connection.
Request(s, req) ==
  /\ s \in inflight
  /\ CommitAuth(AuthContinue(Auth, RequestHandler(Auth, req)))
  /\ inflight' = inflight \ {s}
  /\ UNCHANGED << authSeq, hVerifier, cbTimer >>
  /\ UNCHANGED authRest

\* The 3-minute timer of server s (220-228); it tests the module's
\* callbackServer.
AuthTimeout(s) ==
  /\ cbTimer[s] = "armed"
  /\ cbTimer' = [cbTimer EXCEPT ![s] = "fired"]
  /\ IF callbackServer # NULL
     THEN CommitAuth(AuthContinue(Auth,
            ClearTemp(CloseCallbackServer(RejectAuth(Auth, "OAuth callback timed out.")))))
     ELSE CommitAuth(Auth)
  /\ UNCHANGED << authSeq, hVerifier, inflight >>
  /\ UNCHANGED authRest

\* Server s has closed: every connection has ended.  The "close" listener
\* clears the timer (230-232) and the callback given to close() drops the
\* module's references (116-122).
CbClosed(s) ==
  /\ cbState[s] = "closing"
  /\ s \notin inflight
  /\ cbTimer' = [cbTimer EXCEPT ![s] = IF @ = "armed" THEN "cleared" ELSE @]
  /\ CommitAuth([Auth EXCEPT
       !.cbState[s] = "closed",
       !.callbackServer = IF s \in cbCb THEN NULL ELSE @,
       !.resolveAuthPromise = IF s \in cbCb THEN NULL ELSE @,
       !.rejectAuthPromise = IF s \in cbCb THEN NULL ELSE @])
  /\ UNCHANGED << authSeq, hVerifier, inflight >>
  /\ UNCHANGED authRest

TokenOutcomes == {"failed", "refresh", "noRefresh"}

\* oauth2Client.getToken has answered (268-327).  A new refresh token is a
\* fresh value, named after the invocation that received it.
TokenExchange(h, outcome) ==
  /\ hpc[h] = "token"
  /\ CommitAuth(
       IF outcome = "failed" THEN CallbackCatch(Auth, h)
       ELSE IF outcome = "refresh"
       THEN [ClearTemp(Auth) EXCEPT !.storedRefreshToken = h,
                                    !.hpc[h] = "done", !.hResult[h] = "ok"]
       ELSE [ClearTemp(Auth) EXCEPT
               !.hpc[h] = "done",
               !.hResult[h] = IF storedRefreshToken # NULL THEN "ok" ELSE "noOffline"])
  /\ UNCHANGED << authSeq, hVerifier, cbTimer, inflight >>
  /\ UNCHANGED authRest

\* logout (405-412)
Logout ==
  /\ storedRefreshToken # NULL
  /\ storedRefreshToken' = NULL
  /\ UNCHANGED << tempVerifier, tempAuthState, resolveAuthPromise, rejectAuthPromise,
                  callbackServer, authSeq, hpc, hVerifier, authPromise, hResult,
                  cbState, cbCb, cbTimer, inflight >>
  /\ UNCHANGED authRest

NextAuth ==
  \/ GetAuthUrl
  \/ \E h \in HCalls : HandleCallback(h)
  \/ \E s \in CbServers : ListenOk(s)
  \/ \E s \in CbServers : ListenError(s)
  \/ \E s \in CbServers : CbConnect(s)
  \/ \E s \in CbServers, req \in Requests : Request(s, req)
  \/ \E s \in CbServers : AuthTimeout(s)
  \/ \E s \in CbServers : CbClosed(s)
  \/ \E h \in HCalls, o \in TokenOutcomes : TokenExchange(h, o)
  \/ Logout

SpecAuth == Init /\ [][NextAuth]_vars

\* ================================================================ claims
Settled(c) == promise[c].st \in {"resolved", "rejected"}
Armed(c) == promise[c].st = "pending"
\* call c's handler returns in this step with a failure
ReturnsFailure(c) == pc[c] # "done" /\ pc'[c] = "done" /\ promise'[c].st = "rejected"
\* the holder that rejectAudioPromise would settle, if any
PendingHolder == rejectAudioPromise # NULL /\ Armed(rejectAudioPromise)

\* C1: a startSession made while an earlier one is still in progress is
\* rejected at once, and the earlier call keeps its result holders until its
\* own result is settled.
C1_OverlapRejected ==
  [][ \A c \in Calls :
        /\ (pc[c] = "idle" /\ pc'[c] # "idle" /\ ~NoneInProgress)
             => (pc'[c] = "done" /\ promise'[c].st = "rejected")
        /\ (Armed(c) /\ rejectAudioPromise = c /\ Armed(c)')
             => (rejectAudioPromise' = c /\ resolveAudioPromise' = c) ]_vars

\* C2: once a session's result is resolved or rejected it never changes
\* again, whatever clients send afterwards, and no failure of a late save
\* leaves the message handler as an exception.
C2_SettledOnce ==
  [][ /\ \A c \in Calls : Settled(c) => promise'[c] = promise[c]
      /\ ~escaped' ]_vars

\* C2 witness: an audioBlob was saved after the first session had been
\* rejected by a client error; the save found the holders of the settled
\* promise and cleared them
C2_LateAudio ==
  /\ promise[1] = Rejected(StringReason("denied"))
  /\ pc[2] = "idle"
  /\ saves[1].pc = "done" /\ saves[2].pc = "none"
  /\ files[1].st = "complete"
  /\ resolveAudioPromise = NULL

\* C3: a message or a socket error from a client that is not the registered
\* one settles nothing, starts no save and changes no holder.
C3_StaleClientIgnored ==
  [][ \A k \in Sockets :
        ( /\ k # recordingSocket
          /\ \/ \E arr \in Payloads : MsgAudioBlob(k, arr)
             \/ MsgInvalidAudio(k)
             \/ \E m \in ClientErrors : MsgError(k, m)
             \/ SocketError(k) )
        => UNCHANGED << promise, pc, saves, files, audioFilePath,
                        resolveAudioPromise, rejectAudioPromise >> ]_vars

\* C4: when the session promise resolves with path p, the write to p has
\* finished and the file is complete.
C4_ResolvedPathWritten ==
  [][ \A c \in Calls :
        (Armed(c) /\ promise'[c].st = "resolved")
        => /\ promise'[c].path # NULL
           /\ files'[promise'[c].path].st = "complete" ]_vars

\* C5: with no client ever registering, a connection wait ends only by the
\* timeout rejection, at the tick after PollLimit + 1 fruitless ones; no
\* start command is sent, no holder is armed and no file is written.
C5_TimeoutNoClient ==
  /\ sentCmd # "start"
  /\ resolveAudioPromise = NULL /\ rejectAudioPromise = NULL
  /\ \A p \in Paths : files[p].st = "absent"
  /\ \A c \in Calls :
       /\ promise[c].st \in {"none", "rejected"}
       /\ pc[c] = "poll" => checks[c] <= PollLimit + 1
       /\ promise[c].st = "rejected"
            => /\ promise[c].reason = ErrorObj(TimeoutText)
               /\ checks[c] = PollLimit + 2

\* C5 witness: a startSession has returned the timeout failure
C5_TimedOut ==
  \E c \in Calls : pc[c] = "done" /\ promise[c].reason = ErrorObj(TimeoutText)

\* C6: a successfully written audioBlob that finds a pending session
\* resolves it with the path of its own file, which holds exactly its bytes.
C6_ResolvedWithOwnFile ==
  [][ \A t \in SaveIds :
        (WriteDone(t, TRUE) /\ resolveAudioPromise # NULL /\ Armed(resolveAudioPromise))
        => /\ promise'[resolveAudioPromise] = Resolved(saves[t].path)
           /\ files'[saves[t].path] = [st |-> "complete", bytes |-> saves[t].data] ]_vars

\* C7: an error message m from the client rejects the pending session with
\* m, and the startSession handler returns its failure only after the
\* server it stopped has closed: no server is referenced or listening then.
C7_ErrorRejectsThenStops ==
  [][ /\ \A k \in Sockets, m \in ClientErrors :
           (MsgError(k, m) /\ PendingHolder)
           => promise'[rejectAudioPromise] = Rejected(StringReason(m))
      /\ \A c \in Calls :
           ReturnsFailure(c)
           => /\ server' = NULL
              /\ \A s \in Servers : srvState'[s] # "listening" ]_vars

\* C7 witness: a startSession rejected with the client's "denied" has
\* returned
C7_DeniedReturned ==
  \E c \in Calls : pc[c] = "done" /\ promise[c] = Rejected(StringReason("denied"))

\* C8: stopSession with no client registered returns a failure result and
\* sends no command.
C8_StopWithoutClientFails ==
  stopReturned # "none" /\ sentCmd = "none" => stopReturned = "failure"

\* C9: stopSession with no client registered is only a warning: it rejects
\* no pending session and settles nothing, in whatever state it is called.
C9_StopSettlesNothing ==
  [][ (StopSession /\ recordingSocket = NULL) => promise' = promise ]_vars

\* C10: when a startSession returns a failure, no server is listening, no
\* client is registered and no result holder is set.
C10_CleanAfterFailure ==
  [][ \A c \in Calls :
        ReturnsFailure(c)
        => /\ \A s \in Servers : srvState'[s] # "listening"
           /\ recordingSocket' = NULL
           /\ resolveAudioPromise' = NULL /\ rejectAudioPromise' = NULL ]_vars

\* every listener that is bound is the one the module refers to
OnlyReferencedListens == \A s \in Servers : srvState[s] = "listening" => s = server

C12_StartIdempotent ==
  [][ \A c \in Calls :
        (StartSession(c) /\ server # NULL /\ srvState[server] = "listening")
        => /\ pc'[c] = "open"
           /\ currentPort # NULL /\ currentPort = srvPort[server]
           /\ UNCHANGED << server, wss, currentPort, recordingSocket,
                           srvState, srvPort, wssState, sockState >> ]_vars

\* C12 witness: the second session reuses the server of the first, which
\* resolved, with the first session's client still registered
C12_Reused ==
  /\ promise[1].st = "resolved"
  /\ pc[2] = "open"
  /\ UsedServers = {1}
  /\ recordingSocket # NULL

\* C13: when a stopRecordingServer promise resolves, server, wss,
\* recordingSocket and currentPort are all null and no client connection
\* of the stopped server is left.
C13_ReleasedTogether ==
  [][ \A x \in Callers :
        (pc[x] # "done" /\ pc'[x] = "done" /\ (x \in Calls => promise'[x].st = "rejected"))
        => /\ server' = NULL /\ wss' = NULL
           /\ recordingSocket' = NULL /\ currentPort' = NULL
           /\ \A k \in Sockets : sockState'[k] \notin {"open", "closing", "errored"} ]_vars

\* C14: a registered client implies that the server the module refers to
\* exists and is listening.
C14_ClientImpliesListening ==
  recordingSocket # NULL => (server # NULL /\ srvState[server] = "listening")

\* C15: at every connection the socket registered before it, if any, has
\* close() called on it (it is no longer open afterwards) and the slot
\* holds the new socket; every other socket is left as it is.
C15_LastConnectionWins ==
  [][ \A k \in Sockets :
        Connect(k)
        => /\ recordingSocket' = k
           /\ sockState'[k] = "open"
           /\ recordingSocket # NULL => sockState'[recordingSocket] # "open"
           /\ \A j \in Sockets \ {k, recordingSocket} : sockState'[j] = sockState[j] ]_vars

\* C15 witness: the second connection evicted the first, which is closing
C15_Evicted ==
  /\ recordingSocket = 2
  /\ sockState[1] = "closing"
  /\ sockState[2] = "open"

\* C16: the holders are set only while the promise they belong to is
\* unsettled; once a session is settled, by whatever path, both are null.
C16_HoldersOnlyWhilePending ==
  /\ resolveAudioPromise # NULL => Armed(resolveAudioPromise)
  /\ rejectAudioPromise # NULL => Armed(rejectAudioPromise)

\* C17: an audioBlob that arrives while no resolver is set is dropped: no
\* save is begun for it, so no file comes of it, and nothing is settled.
C17_UnarmedAudioDropped ==
  [][ \A k \in Sockets, arr \in Payloads :
        (MsgAudioBlob(k, arr) /\ resolveAudioPromise = NULL)
        => UNCHANGED << saves, files, promise >> ]_vars

\* C18: when mkdir or writeFile fails, a pending session is rejected with
\* that error, audioFilePath becomes null and both holders are cleared; a
\* rejected session is never resolved afterwards.
C18_SaveFailureRejects ==
  [][ /\ \A t \in SaveIds :
           (WriteDone(t, FALSE) \/ \E sameMs \in BOOLEAN : MkdirDone(t, FALSE, sameMs))
           => /\ PendingHolder
                   => promise'[rejectAudioPromise] = Rejected(ErrorObj(WriteErrorText))
              /\ \A c \in Calls : promise'[c].st # "resolved" \/ promise[c].st = "resolved"
              /\ audioFilePath' = NULL
              /\ resolveAudioPromise' = NULL /\ rejectAudioPromise' = NULL
      /\ \A c \in Calls : promise[c].st = "rejected" => promise'[c].st = "rejected" ]_vars

\* C18 witness: the write of the first recording failed and rejected the
\* session that was waiting for it
C18_WriteFailed ==
  /\ promise[1] = Rejected(ErrorObj(WriteErrorText))
  /\ files[1].st = "partial"
  /\ saves[1].pc = "done" /\ saves[2].pc = "none"
  /\ audioFilePath = NULL

\* C19: every audioBlob that cannot be decoded (payload no object, no data
\* field, data no array) rejects the session that is pending.
C19_UndecodableRejects ==
  [][ \A k \in Sockets :
        ((MsgAudioNoData(k) \/ MsgInvalidAudio(k)) /\ PendingHolder)
        => promise'[rejectAudioPromise].st = "rejected" ]_vars

\* C20: a frame that is not JSON is saved as raw audio only when it is a
\* binary frame; a text frame that is not JSON begins no save, creates no
\* file and resolves nothing.
C20_OnlyBinaryIsRawAudio ==
  [][ \A k \in Sockets, frame \in MalformedTexts, TextAsBuffer \in BOOLEAN :
        MsgNotJson(k, frame, FALSE, TextAsBuffer)
        => /\ UNCHANGED << saves, files >>
           /\ \A c \in Calls : promise'[c].st = "resolved" => promise[c].st = "resolved" ]_vars


C22_LowestFreeInRange ==
  [][ \A c \in Calls :
        ServerCreate(c) =>
          /\ currentPort' \in PortA..PortB
          /\ \A p \in PortA..(currentPort' - 1) : p \in BoundPorts \cup occupied ]_vars


\* C23: a startSession call that is over has not thrown: it returned success
\* with the file path exactly if its session promise resolved, and a failure
\* with an error text exactly if it rejected.
C23_ResultMatchesPromise ==
  \A c \in Calls :
    pc[c] = "done" =>
      /\ Result(c).st \in {"ok", "fail"}
      /\ Result(c).st = "ok" <=> promise[c].st = "resolved"
      /\ Result(c).st = "fail" <=> promise[c].st = "rejected"


\* the messages a handler run sent and the other things it did
Did(what) == \E i \in DOMAIN did : did[i] = what
\* the page holds a microphone stream with an audio track
MicHasAudio == micStream # NULL /\ micStream \in audioMic

C28_IdleStopIsNoOp ==
  [][ (CmdStop /\ (mediaRecorder = NULL \/ recState[mediaRecorder] = "inactive")) =>
        /\ did' = << "status" >>
        /\ UNCHANGED << mediaRecorder, recState, recEvent, audioChunks,
                        micStream, screenStream, micSource, screenSource,
                        audioContext, mixedStreamDestination,
                        liveMic, liveScreen, openCtx, blobsSent >> ]_vars

C28_StoppedTwice ==
  /\ did = << "status" >>
  /\ mediaRecorder # NULL /\ recState[mediaRecorder] = "inactive"
  /\ recEvent[mediaRecorder] = "blob"


\* the handler run sent or did a before b
DidBefore(a, b) == \E i, j \in DOMAIN did : i < j /\ did[i] = a /\ did[j] = b
\* every reference cleanupStreams clears is clear
Cleared ==
  /\ mediaRecorder = NULL /\ micStream = NULL /\ screenStream = NULL
  /\ micSource = NULL /\ screenSource = NULL
  /\ audioContext = NULL /\ mixedStreamDestination = NULL
  /\ audioChunks = << >>
\* a handler run in which the engine fails
FailureStep ==
  \/ \E c \in Starts : MicDenied(c) \/ ScreenDenied(c)
  \/ \E c \in Starts, hasAudio \in BOOLEAN, fail \in Failures :
       ScreenGranted(c, hasAudio, fail) /\ (fail # "none" \/ ~(MicHasAudio \/ hasAudio))
  \/ \E r \in Starts : RecError(r)
  \/ \E r \in Starts : RecBlob(r, FALSE)

\* C26: whenever the engine fails - a permission refused, no audio track,
\* the graph, the encoder's construction or start failing, an error event of
\* the MediaRecorder, the final blob not converted - the same handler run
\* sends an error message and then cleans up, leaving every reference
\* cleared.
C26_AlwaysReported ==
  [][ FailureStep => (DidBefore("error", "cleanup")' /\ Cleared') ]_vars

\* C26, amended: the same for every failure that happens while the socket to
\* the host is open; with the socket closed only the cleanup runs.
C26_ErrorThenCleanup ==
  [][ FailureStep =>
        /\ Did("cleanup")' /\ Cleared'
        /\ ws = "open" => DidBefore("error", "cleanup")' ]_vars

C26_StartThrew ==
  /\ ws = "open" /\ DidBefore("error", "cleanup") /\ Cleared
  /\ \E c \in Starts : recState[c] = "inactive" /\ recEvent[c] = "none"

\* C27: the stop event of a recording is answered, when its blob has been
\* converted and the socket is open, by exactly one audioBlob message, made
\* of exactly the chunks that recording emitted and sent before the cleanup
\* that leaves every reference cleared.
C27_OneCompleteBlob ==
  [][ \A r \in Starts :
        (RecBlob(r, TRUE) /\ ws = "open") =>
          /\ blobsSent'[r] = 1
          /\ blob[r] = [i \in 1..produced[r] |-> r]
          /\ DidBefore("audioBlob", "cleanup")'
          /\ Cleared' ]_vars


\* C29: when a client's connection ends without an error event, neither the
\* end of the connection nor the close handler settles a pending session or
\* touches its holders, the server references or the file path: a pending
\* session is still pending afterwards, and only the registered-client slot
\* is cleared, if it held that client.
C29_DisconnectSettlesNothing ==
  [][ \A k \in Sockets :
        ( /\ sockState[k] \in {"open", "closing", "gone"}
          /\ sockState'[k] \in {"gone", "closed"}
          /\ sockState'[k] # sockState[k] ) =>
          /\ \A c \in Calls : Armed(c) => Armed(c)'
          /\ UNCHANGED << promise, resolveAudioPromise, rejectAudioPromise,
                          server, wss, currentPort, audioFilePath >>
          /\ recordingSocket' = IF sockState'[k] = "closed" /\ recordingSocket = k
                                  THEN NULL ELSE recordingSocket ]_vars

C29_PendingWithoutClient ==
  /\ \E c \in Calls : Armed(c) /\ rejectAudioPromise = c
  /\ recordingSocket = NULL
  /\ \E k \in Sockets : sockState[k] = "closed"
  /\ \A k \in Sockets : sockState[k] \in {"closed", "none"}


\* C30: with no client registered, a connection wait does not outlast its
\* 20th poll (10 000 ms at one poll each 500 ms): once 20 polls have found
\* no client the call is no longer waiting.
C30_TimeoutBy20thPoll ==
  \A c \in Calls : checks[c] >= 20 => pc[c] # "poll"


C31_ListenerReferenced ==
  \A s \in Servers :
    srvState[s] = "listening" => (s = server /\ currentPort = srvPort[s])

\* a startSession call between its invocation and its return
InProgress(c) == pc[c] \in {"getPort", "open", "poll", "armed", "teardown"}

\* C32: a stopSession made while a startSession call is in progress - in the
\* connection wait, while the page acquires its streams, or while it records -
\* is followed by the return of that startSession call, when the page stays
\* connected, the prompts are granted and the file is written.
C32_StopSettles ==
  \A c \in Calls : (stopReturned # "none" /\ InProgress(c)) ~> (pc[c] = "done")

\* startRecording calls waiting for a permission prompt, recorders recording
Acquiring == { c \in Starts : startPc[c] \in {"mic", "screen"} }
Recording == { r \in Starts : recState[r] = "recording" }

\* C33: the engine has at most one acquisition and at most one recording
\* MediaRecorder at any time, no acquisition runs beside a recording one, and
\* every stream with live tracks is the one the page still refers to (a later
\* start has overwritten none).
C33_SingleCapture ==
  /\ Cardinality(Acquiring) <= 1
  /\ Cardinality(Recording) <= 1
  /\ Acquiring # {} => Recording = {}
  /\ liveMic \subseteq {micStream}
  /\ liveScreen \subseteq {screenStream}

\* C34: the close event or the error event of a client that is not the
\* registered one - it has been replaced by a newer connection - leaves the
\* registered-client slot holding the newer client.
C34_StaleEventKeepsSlot ==
  [][ \A k \in Sockets :
        ( /\ recordingSocket # NULL /\ k # recordingSocket
          /\ sockState'[k] \in {"closed", "errored"}
          /\ sockState'[k] # sockState[k] )
        => recordingSocket' = recordingSocket ]_vars

\* C34 witness: the first client was replaced by the second and its close
\* event has been handled; the second is still registered
C34_ReplacedClientClosed ==
  /\ recordingSocket = 2 /\ sockState[2] = "open"
  /\ sockState[1] = "closed"

\* C35: the promise of every stopRecordingServer call resolves in the end,
\* also while a client connection is open and stays open: whoever awaits the
\* teardown gets its result.
C35_TeardownCompletes ==
  \A x \in Callers : (pc[x] = "teardown") ~> (pc[x] = "done")

\* C36: whatever rejected the session - an Error object or a text - the error
\* field of the failure that startSession returns is the text of that reason.
C36_ErrorIsReasonText ==
  \A c \in Calls :
    Result(c).st = "fail" => Result(c).error = promise[c].reason.text

PendingStarts == { m \in StartMuts : startMutation[m] = "pending" }
PendingStops == { n \in StopMuts : stopMutation[n] = "pending" }

\* C37: the component never has two startSession mutations pending: Start
\* can be pressed only when every earlier start mutation has settled,
\* whatever the stopSession mutations answered and when.
C37_OneStartPending ==
  /\ Cardinality(PendingStarts) <= 1
  /\ StartEnabled => PendingStarts = {}

\* C38: when every startSession mutation issued has settled and no
\* stopSession mutation is pending, the component is in state idle or error.
C38_SettledMeansIdleOrError ==
  (PendingStarts = {} /\ PendingStops = {}) => recordingState \in {"idle", "error"}


\* The state value generated by the getAuthUrl call of the flow that
\* invocation h belongs to: the pair generated together with the verifier
\* the invocation captured.
FlowState(h) == hVerifier[h]

\* C39: the pending auth promise is resolved with a code only by a callback
\* request without an error parameter whose state parameter equals the state
\* generated by the getAuthUrl call of that flow; a request with a missing or
\* different state, or with an error parameter, rejects the pending flow; and
\* a settled auth promise never changes again.
C39_CodeNeedsFlowState ==
  [][ \A h \in HCalls :
        /\ (authPromise[h].st = "pending" /\ authPromise'[h].st = "resolved")
             => \E s \in CbServers, req \in Requests :
                  /\ Request(s, req)
                  /\ ~req.error
                  /\ req.state = FlowState(h)
                  /\ req.code = authPromise'[h].code
        /\ \A s \in CbServers, req \in Requests :
             (/\ Request(s, req)
              /\ rejectAuthPromise = h
              /\ authPromise[h].st = "pending"
              /\ (req.error \/ req.state # FlowState(h)))
             => authPromise'[h].st = "rejected"
        /\ (authPromise[h].st \in {"resolved", "rejected"})
             => authPromise'[h] = authPromise[h] ]_vars

\* C40: a handleCallback invocation that ends by throwing leaves the stored
\* refresh token, and with it the authentication status, as it was.
C40_FailureKeepsToken ==
  [][ \A h \in HCalls :
        (hpc[h] # "done" /\ hpc'[h] = "done" /\ hResult'[h] = "threw")
          => storedRefreshToken' = storedRefreshToken ]_vars

====
